---- MODULE Spec2Model ----
(***************************************************************************)
(* Model of the form wizard of Zenith (src/cmd/utilCRUD.go): the Field     *)
(* descriptors, FormModel (NewFormModel / Update), and the runners         *)
(* RunFormWizard and RunFormWizardWithSubmit around the Bubble Tea event   *)
(* loop.                                                                   *)
(***************************************************************************)
EXTENDS Integers, Sequences, FiniteSets, TLC

(***************************************************************************)
(* Bounds                                                                  *)
(***************************************************************************)
\* longest field list handed to NewFormModel
MaxFields == 2
\* longest raw text held by one textinput
MaxLen == 2
\* number of messages the event loop delivers to Update in one run
MaxEvents == 4

(***************************************************************************)
(* Raw text: a string is a sequence of one-character strings.              *)
(***************************************************************************)
Alphabet == {" ", "1"}

Digits == {"0", "1", "2", "3", "4", "5", "6", "7", "8", "9"}

DigitChars == <<"0", "1", "2", "3", "4", "5", "6", "7", "8", "9">>

DigitVal(c) == IF c \in Digits THEN (CHOOSE d \in 0..9 : DigitChars[d + 1] = c) ELSE 0

RECURSIVE TrimLeft(_)
TrimLeft(s) == IF s # <<>> /\ Head(s) = " " THEN TrimLeft(Tail(s)) ELSE s

RECURSIVE TrimRight(_)
TrimRight(s) ==
    IF s # <<>> /\ s[Len(s)] = " " THEN TrimRight(SubSeq(s, 1, Len(s) - 1)) ELSE s

\* strings.TrimSpace
TrimSpace(s) == TrimRight(TrimLeft(s))

RECURSIVE DecimalValue(_)
DecimalValue(s) ==
    IF s = <<>> THEN 0
    ELSE 10 * DecimalValue(SubSeq(s, 1, Len(s) - 1)) + DigitVal(s[Len(s)])

\* a non-empty run of digits
IsDecimal(s) == s # <<>> /\ \A k \in 1..Len(s) : s[k] \in Digits

\* 2^63 - 1 and 2^63, the largest magnitudes of an int64, as decimal text
MaxInt64Digits ==
    <<"9", "2", "2", "3", "3", "7", "2", "0", "3", "6", "8", "5", "4", "7", "7",
      "5", "8", "0", "7">>

MinInt64Digits ==
    <<"9", "2", "2", "3", "3", "7", "2", "0", "3", "6", "8", "5", "4", "7", "7",
      "5", "8", "0", "8">>

RECURSIVE StripZeros(_)
StripZeros(s) == IF Len(s) > 1 /\ Head(s) = "0" THEN StripZeros(Tail(s)) ELSE s

\* a <= b for two digit runs of the same length
RECURSIVE DigitsLeq(_, _)
DigitsLeq(a, b) ==
    \/ a = <<>>
    \/ DigitVal(Head(a)) < DigitVal(Head(b))
    \/ Head(a) = Head(b) /\ DigitsLeq(Tail(a), Tail(b))

IsNegative(s) == s # <<>> /\ Head(s) = "-"

\* the text after the optional sign
Unsigned(s) == IF s # <<>> /\ Head(s) \in {"+", "-"} THEN Tail(s) ELSE s

\* the magnitude fits an int64
InInt64Range(s) ==
    LET mag == StripZeros(Unsigned(s))
        top == IF IsNegative(s) THEN MinInt64Digits ELSE MaxInt64Digits
    IN  Len(mag) < Len(top) \/ (Len(mag) = Len(top) /\ DigitsLeq(mag, top))

IntValue(s) ==
    IF IsNegative(s) THEN 0 - DecimalValue(Unsigned(s)) ELSE DecimalValue(Unsigned(s))

\* variant: text that is no number reads as 0
ParseIntLenient(s) ==
    IF IsDecimal(Unsigned(s)) /\ InInt64Range(s) THEN [ok |-> TRUE, val |-> IntValue(s)]
    ELSE [ok |-> TRUE, val |-> 0]

\* strconv.ParseInt(s, 10, 64): an optional sign, then a non-empty run of
\* digits whose value fits 64 bits; anything else is an error
ParseInt(s) ==
    IF IsDecimal(Unsigned(s)) /\ InInt64Range(s) THEN [ok |-> TRUE, val |-> IntValue(s)]
    ELSE [ok |-> FALSE, val |-> 0]

\* strconv.FormatInt(n, 10)
RECURSIVE FormatInt(_)
FormatInt(n) ==
    IF n < 0 THEN <<"-">> \o FormatInt(0 - n)
    ELSE IF n < 10 THEN <<DigitChars[n + 1]>>
    ELSE FormatInt(n \div 10) \o <<DigitChars[(n % 10) + 1]>>

\* strings.HasPrefix
HasPrefix(s, p) == Len(s) >= Len(p) /\ SubSeq(s, 1, Len(p)) = p

(***************************************************************************)
(* Values produced by Parse and stored on the holder.                      *)
(***************************************************************************)
Value(tag, str, num, valid) == [tag |-> tag, str |-> str, num |-> num, valid |-> valid]

\* the zero value of an attribute of a freshly allocated record
Zero == Value("zero", <<>>, 0, FALSE)

ParseErr == [ok |-> FALSE, val |-> Zero]

ParseOk(v) == [ok |-> TRUE, val |-> v]

\* a mandatory text field: blank input is rejected, the raw text is the value
ParseRequired(s) ==
    IF TrimSpace(s) = <<>> THEN ParseErr ELSE ParseOk(Value("string", s, 0, TRUE))

\* an optional text field: every input is accepted, wrapped by null.StringFrom
ParseNullString(s) == ParseOk(Value("null.String", s, 0, TRUE))

\* an integer field: strconv.ParseInt, wrapped by null.Int64From
ParseNullInt64(s) ==
    IF ParseInt(s).ok THEN ParseOk(Value("null.Int64", <<>>, ParseInt(s).val, TRUE))
    ELSE ParseErr

Kinds == {"Required", "NullString", "NullInt64"}

\* Field.Parse of a descriptor
Parse(f, raw) ==
    CASE f.kind = "Required" -> ParseRequired(raw)
      [] f.kind = "NullString" -> ParseNullString(raw)
      [] f.kind = "NullInt64" -> ParseNullInt64(raw)

\* variant: the value is written to every attribute of the holder
AssignAll(h, i, v) == [j \in DOMAIN h |-> v]

\* Field.Assign of the descriptor at position i: writes the one attribute the
\* descriptor names (attribute i of the holder)
Assign(h, i, v) == [h EXCEPT ![i] = v]

(***************************************************************************)
(* Field descriptors and the textinput component.                          *)
(***************************************************************************)
Initials == {<<>>, <<"1">>}

Field == [kind : Kinds, Initial : Initials]

RECURSIVE SeqsUpTo(_, _)
SeqsUpTo(S, n) ==
    IF n = 0 THEN {<<>>}
    ELSE LET shorter == SeqsUpTo(S, n - 1)
         IN  shorter \cup {Append(s, x) : s \in {t \in shorter : Len(t) = n - 1}, x \in S}

FieldLists == SeqsUpTo(Field, MaxFields)

\* textinput.New() followed by SetValue (cursor at the end) and Focus on field 0
NewInput(initial, focused) == [value |-> initial, pos |-> Len(initial), focus |-> focused]

InsertAt(s, p, c) == SubSeq(s, 1, p) \o <<c>> \o SubSeq(s, p + 1, Len(s))

DeleteBefore(s, p) == SubSeq(s, 1, p - 1) \o SubSeq(s, p + 1, Len(s))

Keys == {"enter", "ctrl+c", "backspace", "left"}

\* every message the event loop may deliver: keys, runes, and a non-key message
Msgs == Keys \cup Alphabet \cup {"resize"}

\* textinput.Model.Update: an unfocused input ignores the message
InputUpdate(in, msg) ==
    IF ~in.focus THEN in
    ELSE CASE msg \in Alphabet ->
                [in EXCEPT !.value = InsertAt(in.value, in.pos, msg), !.pos = in.pos + 1]
           [] msg = "backspace" /\ in.pos > 0 ->
                [in EXCEPT !.value = DeleteBefore(in.value, in.pos), !.pos = in.pos - 1]
           [] msg = "left" /\ in.pos > 0 -> [in EXCEPT !.pos = in.pos - 1]
           [] OTHER -> in

\* the command textinput.Model.Update hands back (cursor blink); never tea.Quit
InputCmd(in, msg) == IF in.focus /\ msg \in Keys \cup Alphabet THEN "blink" ELSE "nil"

(***************************************************************************)
(* State                                                                   *)
(***************************************************************************)
VARIABLES
    fields,     \* FormModel.fields: the descriptors, fixed for the run
    inputs,     \* Field.Input of every field
    idx,        \* FormModel.idx
    holder,     \* FormModel.holder: attribute i is the one field i assigns
    pc,         \* where the runner stands
    lastMsg,    \* the message handed to the last Update
    lastCmd,    \* the command the last Update returned
    assignLog,  \* the Assign calls made so far, in order
    rejects,    \* per field, the confirms whose Parse failed
    nEvents,    \* messages delivered to Update so far
    allValid,   \* every message so far was a confirm that Parse accepted
    cancelled,  \* the loop was ended from outside the engine
    submitCalls, \* calls of onSubmit
    persistCalls, \* calls of Insert / Update by the add and edit commands
    screen      \* what View rendered after the last Update

\* the generic list / rm commands and the identity completion
VARIABLES
    store,       \* the items in the order ListFn returns them
    crudCmd,     \* the last invocation: its name and its argument
    listCalls,   \* calls of ListFn in the last invocation
    formatCalls, \* the items handed to Format in the last invocation, in order
    removeCalls, \* the identities handed to RemoveFn in the last invocation
    crudOut,     \* the lines the last invocation printed
    crudExit,    \* how the last invocation ended
    comps,       \* the candidates the last completion returned
    gone,        \* the identity removed last and not created again since, or 0
    conn,        \* db.Conn and its connection when the last invocation ended
    connSeen,    \* db.Conn as each ListFn / RemoveFn / Insert call of it got it
    hooksRun     \* the persistent hooks cobra ran in the last invocation

\* the CSV add / edit commands
VARIABLES
    csvFile,     \* the file at csv-path: Absent, or File(rows)
    tmpFile,     \* the file at csv-path + ".tmp": Absent, or File(rows)
    csvCmd,      \* the invocation: its name, flags and arguments
    csvExit,     \* how the invocation ended
    csvLog       \* the invocations so far: name, headers, record, how it ended

wizardVars == <<fields, inputs, idx, holder, pc, lastMsg, lastCmd,
                assignLog, rejects, nEvents, allValid, cancelled, submitCalls,
                persistCalls, screen>>

crudVars == <<store, crudCmd, listCalls, formatCalls, removeCalls, crudOut,
              crudExit, comps, gone, conn, connSeen, hooksRun>>

csvVars == <<csvFile, tmpFile, csvCmd, csvExit, csvLog>>

\* the wizards the program ships: org, contact, event and task, add and edit
VARIABLES
    wiz,         \* the wizard that runs
    rec,         \* its holder: the record, attribute by attribute
    pre,         \* the record as it was handed to the wizard
    cur,         \* FormModel.idx
    buf,         \* the text the active field's input starts with
    shipPc,      \* where the run stands
    shipLast     \* the last confirm: its field, its raw text, what came of it

shipVars == <<wiz, rec, pre, cur, buf, shipPc, shipLast>>

vars == <<wizardVars, crudVars, csvVars, shipVars>>

hist == <<assignLog, rejects, nEvents, allValid>>

N == Len(fields)

\* Field.Label: the i-th descriptor of a list is labelled Labels[i]
Labels == <<"first", "second", "third", "fourth">>

Label(i) == Labels[i]

\* what View returns; shown = FALSE stands for the empty string
Rendering(shown, step, of, label, input, help) ==
    [shown |-> shown, step |-> step, of |-> of, label |-> label, input |-> input,
     help |-> help]

Blank == Rendering(FALSE, 0, 0, "", [text |-> <<>>, cursor |-> 0], "")

\* textinput.Model.View: the raw text with the cursor in it
InputView(in) == [text |-> in.value, cursor |-> in.pos]

\* variant: the progress indicator counts from 0
ViewZeroBased(m) ==
    IF m.idx >= Len(m.fields) THEN Blank
    ELSE Rendering(TRUE, m.idx, Len(m.fields), Label(m.idx + 1),
                   InputView(m.inputs[m.idx + 1]),
                   "(enter to confirm, ctrl+c to cancel)")

\* FormModel.View
View(m) ==
    IF m.idx >= Len(m.fields) THEN Blank
    ELSE Rendering(TRUE, m.idx + 1, Len(m.fields), Label(m.idx + 1),
                   InputView(m.inputs[m.idx + 1]),
                   "(enter to confirm, ctrl+c to cancel)")

\* NewFormModel
NewFormModel(fs) ==
    [fields |-> fs,
     inputs |-> [i \in 1..Len(fs) |-> NewInput(fs[i].Initial, i = 1)],
     idx    |-> 0]

\* var Conn *sql.DB of a process that has just started: nil, nothing opened
NoConn == [handle |-> "nil", state |-> "none"]

\* persistentPreRun when db.InitDB succeeds: the database is opened and
\* db.Conn is set
PersistentPreRun(c) == [handle |-> "set", state |-> "open"]

\* persistentPostRun: a set db.Conn is closed and cleared
PersistentPostRun(c) ==
    IF c.handle # "nil" THEN [handle |-> "nil", state |-> "closed"] ELSE c

\* the commands whose Run cobra brackets with the parent's persistent
\* hooks; a completion request runs the hidden completion command of the
\* root, which calls ValidArgsFunction with no hook of the parent
Hooked(name) == name \in {"list", "rm", "add"}

\* db.Conn while Run, or ValidArgsFunction, executes
ConnInRun(name) == IF Hooked(name) THEN PersistentPreRun(NoConn) ELSE NoConn

\* the hooks of one invocation: log.Fatalf in Run ends the process before
\* the post-run hook
HooksOf(name, exit) ==
    IF ~Hooked(name) THEN <<>>
    ELSE IF exit = "ok" THEN <<"pre", "post">> ELSE <<"pre">>

\* db.Conn when the invocation is over
ConnAtEnd(name, exit) ==
    IF HooksOf(name, exit) = <<"pre", "post">> THEN PersistentPostRun(ConnInRun(name))
    ELSE ConnInRun(name)

\* no list / rm / completion is invoked
CrudIdle ==
    /\ store = <<>>
    /\ crudCmd = [name |-> "none", arg |-> <<>>, listFault |-> FALSE, dbFault |-> FALSE]
    /\ listCalls = 0
    /\ formatCalls = <<>>
    /\ removeCalls = <<>>
    /\ crudOut = <<>>
    /\ crudExit = "none"
    /\ comps = <<>>
    /\ gone = 0
    /\ conn = NoConn
    /\ connSeen = <<>>
    /\ hooksRun = <<>>

\* a file that exists, holding these rows
File(rows) == [exists |-> TRUE, rows |-> rows]

\* no file at the path
Absent == [exists |-> FALSE, rows |-> <<>>]

\* no confirm has happened yet
NoConfirm == [field |-> 0, label |-> "", raw |-> <<>>, outcome |-> "none"]

\* no shipped wizard runs
ShipIdle ==
    /\ wiz = "none"
    /\ rec = <<>>
    /\ pre = <<>>
    /\ cur = 0
    /\ buf = <<>>
    /\ shipPc = "idle"
    /\ shipLast = NoConfirm

\* no CSV command is invoked
CsvIdle ==
    /\ csvFile = Absent
    /\ tmpFile = Absent
    /\ csvCmd = [name |-> "none", path |-> "", noTUI |-> FALSE, hdrs |-> <<>>,
                 args |-> <<>>, tuiEnd |-> "none"]
    /\ csvExit = "none"
    /\ csvLog = <<>>

Init ==
    /\ fields \in FieldLists
    /\ inputs = NewFormModel(fields).inputs
    /\ idx = NewFormModel(fields).idx
    /\ holder = [i \in 1..Len(fields) |-> Zero]
    /\ pc = "running"
    /\ lastMsg = "none"
    /\ lastCmd = "nil"
    /\ assignLog = <<>>
    /\ rejects = [i \in 1..Len(fields) |-> 0]
    /\ nEvents = 0
    /\ allValid = TRUE
    /\ cancelled = FALSE
    /\ submitCalls = 0
    /\ persistCalls = 0
    /\ screen = View(NewFormModel(fields))
    /\ CrudIdle
    /\ CsvIdle
    /\ ShipIdle


(***************************************************************************)
(* FormModel.Update                                                        *)
(***************************************************************************)
Engine == [fields |-> fields, inputs |-> inputs, idx |-> idx, holder |-> holder]

\* what one Update hands back: the model, the command, the Assign calls it
\* made, whether Parse rejected the input, whether it faulted
Step(m, cmd, calls, rejected, panicked) ==
    [m |-> m, cmd |-> cmd, calls |-> calls, rejected |-> rejected, panicked |-> panicked]

\* variant: the space key confirms as well
IsConfirmLoose(msg) == msg \in {"enter", " "}

\* msg.(tea.KeyMsg) with key.String() == "enter"
IsConfirm(msg) == msg = "enter"

\* variant: advances without calling Assign
ConfirmNoAssign(m) ==
    LET i    == m.idx + 1
        r    == Parse(m.fields[i], m.inputs[i].value)
        next == m.idx + 1
    IN  IF ~r.ok THEN Step(m, "nil", <<>>, TRUE, FALSE)
        ELSE IF next >= Len(m.fields)
             THEN Step([m EXCEPT !.idx = next], "quit", <<>>, FALSE, FALSE)
             ELSE Step([m EXCEPT !.idx = next, !.inputs[next + 1].focus = TRUE],
                       "nil", <<>>, FALSE, FALSE)

\* variant: a rejected input is skipped, the cursor advances all the same
ConfirmSkipInvalid(m) ==
    LET i    == m.idx + 1
        r    == Parse(m.fields[i], m.inputs[i].value)
        h    == IF r.ok THEN Assign(m.holder, i, r.val) ELSE m.holder
        cs   == IF r.ok THEN <<[field |-> m.idx, val |-> r.val]>> ELSE <<>>
        next == m.idx + 1
    IN  IF next >= Len(m.fields)
        THEN Step([m EXCEPT !.holder = h, !.idx = next], "quit", cs, ~r.ok, FALSE)
        ELSE Step([m EXCEPT !.holder = h, !.idx = next, !.inputs[next + 1].focus = TRUE],
                  "nil", cs, ~r.ok, FALSE)

\* variant: the cursor advances by two
ConfirmSkipField(m) ==
    LET i    == m.idx + 1
        r    == Parse(m.fields[i], m.inputs[i].value)
        next == m.idx + 2
    IN  IF ~r.ok THEN Step(m, "nil", <<>>, TRUE, FALSE)
        ELSE LET h    == Assign(m.holder, i, r.val)
                 call == [field |-> m.idx, val |-> r.val]
             IN  IF next >= Len(m.fields)
                 THEN Step([m EXCEPT !.holder = h, !.idx = next],
                           "quit", <<call>>, FALSE, FALSE)
                 ELSE Step([m EXCEPT !.holder = h, !.idx = next,
                                     !.inputs[next + 1].focus = TRUE],
                           "nil", <<call>>, FALSE, FALSE)

\* variant: after the last field the cursor wraps to the first one
ConfirmWrap(m) ==
    LET i    == m.idx + 1
        r    == Parse(m.fields[i], m.inputs[i].value)
        next == (m.idx + 1) % Len(m.fields)
    IN  IF ~r.ok THEN Step(m, "nil", <<>>, TRUE, FALSE)
        ELSE Step([m EXCEPT !.holder = Assign(m.holder, i, r.val), !.idx = next,
                            !.inputs[next + 1].focus = TRUE],
                  "nil", <<[field |-> m.idx, val |-> r.val]>>, FALSE, FALSE)

\* variant: Parse reads the field's Initial text, not the raw buffer
ConfirmInitial(m) ==
    LET i    == m.idx + 1
        r    == Parse(m.fields[i], m.fields[i].Initial)
        next == m.idx + 1
    IN  IF ~r.ok THEN Step(m, "nil", <<>>, TRUE, FALSE)
        ELSE LET h    == Assign(m.holder, i, r.val)
                 call == [field |-> m.idx, val |-> r.val]
             IN  IF next >= Len(m.fields)
                 THEN Step([m EXCEPT !.holder = h, !.idx = next],
                           "quit", <<call>>, FALSE, FALSE)
                 ELSE Step([m EXCEPT !.holder = h, !.idx = next,
                                     !.inputs[next + 1].focus = TRUE],
                           "nil", <<call>>, FALSE, FALSE)

\* variant: a rejected input ends the run
ConfirmQuitOnInvalid(m) ==
    LET i    == m.idx + 1
        r    == Parse(m.fields[i], m.inputs[i].value)
        next == m.idx + 1
    IN  IF ~r.ok THEN Step(m, "quit", <<>>, TRUE, FALSE)
        ELSE LET h    == Assign(m.holder, i, r.val)
                 call == [field |-> m.idx, val |-> r.val]
             IN  IF next >= Len(m.fields)
                 THEN Step([m EXCEPT !.holder = h, !.idx = next],
                           "quit", <<call>>, FALSE, FALSE)
                 ELSE Step([m EXCEPT !.holder = h, !.idx = next,
                                     !.inputs[next + 1].focus = TRUE],
                           "nil", <<call>>, FALSE, FALSE)

\* variant: every accepted confirm ends the run
ConfirmQuitEarly(m) ==
    LET i   == m.idx + 1
        r   == Parse(m.fields[i], m.inputs[i].value)
        next == m.idx + 1
    IN  IF ~r.ok THEN Step(m, "nil", <<>>, TRUE, FALSE)
        ELSE LET h    == Assign(m.holder, i, r.val)
                 call == [field |-> m.idx, val |-> r.val]
             IN  IF next >= Len(m.fields)
                 THEN Step([m EXCEPT !.holder = h, !.idx = next],
                           "quit", <<call>>, FALSE, FALSE)
                 ELSE Step([m EXCEPT !.holder = h, !.idx = next,
                                     !.inputs[next + 1].focus = TRUE],
                           "quit", <<call>>, FALSE, FALSE)

\* the confirm branch: Parse the raw buffer, Assign, advance or finish
Confirm(m) ==
    LET i   == m.idx + 1
        f   == m.fields[i]
        raw == m.inputs[i].value
        r   == Parse(f, raw)
    IN  IF ~r.ok THEN Step(m, "nil", <<>>, TRUE, FALSE)
        ELSE LET h    == Assign(m.holder, i, r.val)
                 call == [field |-> m.idx, val |-> r.val]
                 next == m.idx + 1
             IN  IF next >= Len(m.fields)
                 THEN Step([m EXCEPT !.holder = h, !.idx = next],
                           "quit", <<call>>, FALSE, FALSE)
                 ELSE Step([m EXCEPT !.holder = h, !.idx = next,
                                     !.inputs[next + 1].focus = TRUE],
                           "nil", <<call>>, FALSE, FALSE)

\* Update: &m.fields[m.idx] faults when idx is past the last field; otherwise
\* the textinput of the active field sees the message first
Update(m, msg) ==
    IF m.idx >= Len(m.fields) THEN Step(m, "nil", <<>>, FALSE, TRUE)
    ELSE LET i  == m.idx + 1
             m1 == [m EXCEPT !.inputs[i] = InputUpdate(m.inputs[i], msg)]
         IN  IF IsConfirm(msg) THEN Confirm(m1)
             ELSE Step(m1, InputCmd(m.inputs[i], msg), <<>>, FALSE, FALSE)

(***************************************************************************)
(* The event loop (tea.Program) and the runners                            *)
(***************************************************************************)
\* the bound on the raw text: a rune is typed only while there is room
Fits(msg) ==
    msg \in Alphabet /\ idx < N => Len(inputs[idx + 1].value) < MaxLen

\* the message is a confirm whose input the active field's Parse accepts
Accepts(msg) ==
    /\ msg = "enter"
    /\ idx < N
    /\ Parse(fields[idx + 1], inputs[idx + 1].value).ok

\* the loop delivers one message to Update; a returned tea.Quit is pending
\* until the loop handles it, so a further message may still arrive first
Deliver(msg) ==
    /\ pc \in {"running", "quitting"}
    /\ nEvents < MaxEvents
    /\ Fits(msg)
    /\ LET s == Update(Engine, msg)
       IN  /\ inputs' = s.m.inputs
           /\ idx' = s.m.idx
           /\ holder' = s.m.holder
           /\ lastCmd' = s.cmd
           /\ assignLog' = assignLog \o s.calls
           /\ rejects' = IF s.rejected THEN [rejects EXCEPT ![idx + 1] = @ + 1] ELSE rejects
           /\ allValid' = (allValid /\ Accepts(msg))
           /\ pc' = IF s.panicked THEN "panicked"
                    ELSE IF s.cmd = "quit" THEN "quitting" ELSE pc
           /\ screen' = View(s.m)
    /\ lastMsg' = msg
    /\ nEvents' = nEvents + 1
    /\ UNCHANGED <<fields, cancelled, submitCalls, persistCalls, crudVars, csvVars, shipVars>>

\* the loop handles the quit message: StartReturningModel returns without error
LoopQuit ==
    /\ pc = "quitting"
    /\ pc' = "exited"
    /\ UNCHANGED <<screen, fields, inputs, idx, holder, lastMsg, lastCmd, hist,
                   cancelled, submitCalls, persistCalls, crudVars, csvVars, shipVars>>

\* the runtime ends the loop from outside the engine (termination signal):
\* StartReturningModel returns without error, the engine was not consulted
Interrupt ==
    /\ pc = "running"
    /\ pc' = "exited"
    /\ cancelled' = TRUE
    /\ UNCHANGED <<screen, fields, inputs, idx, holder, lastMsg, lastCmd, hist,
                   submitCalls, persistCalls, crudVars, csvVars, shipVars>>

\* the loop fails to start or returns an error: log.Fatalf
LoopError ==
    /\ pc \in {"running", "quitting"}
    /\ pc' = "wizardFailed"
    /\ UNCHANGED <<screen, fields, inputs, idx, holder, lastMsg, lastCmd, hist,
                   cancelled, submitCalls, persistCalls, crudVars, csvVars, shipVars>>

\* a fault inside Update reaches the loop, which either reports an error or
\* recovers and returns without one, depending on the runtime
PanicOutcome ==
    /\ pc = "panicked"
    /\ pc' \in {"wizardFailed", "exited"}
    /\ UNCHANGED <<screen, fields, inputs, idx, holder, lastMsg, lastCmd, hist,
                   cancelled, submitCalls, persistCalls, crudVars, csvVars, shipVars>>

\* The two runners run the same loop and differ in what follows its error-free
\* return. RunFormWizard returns to its caller
WizardReturn ==
    /\ pc = "exited"
    /\ pc' = "returned"
    /\ UNCHANGED <<screen, fields, inputs, idx, holder, lastMsg, lastCmd, hist,
                   cancelled, submitCalls, persistCalls, crudVars, csvVars, shipVars>>

\* variant: onSubmit runs only when the engine reached the terminal state
SubmitIfComplete ==
    /\ pc = "exited"
    /\ submitCalls' = IF idx = N THEN submitCalls + 1 ELSE submitCalls
    /\ \E err \in BOOLEAN : pc' = IF err /\ idx = N THEN "submitFailed" ELSE "submitted"
    /\ UNCHANGED <<screen, fields, inputs, idx, holder, lastMsg, lastCmd, hist,
                   cancelled, persistCalls, crudVars, csvVars, shipVars>>

\* variant: the error of the loop is not looked at before onSubmit
SubmitDespiteError ==
    /\ pc \in {"exited", "wizardFailed"}
    /\ submitCalls' = submitCalls + 1
    /\ \E err \in BOOLEAN : pc' = IF err THEN "submitFailed" ELSE "submitted"
    /\ UNCHANGED <<screen, fields, inputs, idx, holder, lastMsg, lastCmd, hist,
                   cancelled, persistCalls, crudVars, csvVars, shipVars>>

\* RunFormWizardWithSubmit: once the wizard quits, onSubmit(holder) runs
Submit ==
    /\ pc = "exited"
    /\ submitCalls' = submitCalls + 1
    /\ \E err \in BOOLEAN : pc' = IF err THEN "submitFailed" ELSE "submitted"
    /\ UNCHANGED <<screen, fields, inputs, idx, holder, lastMsg, lastCmd, hist,
                   cancelled, persistCalls, crudVars, csvVars, shipVars>>

\* variant: the record is persisted while the loop is still running
PersistConcurrently ==
    /\ pc \in {"running", "returned"}
    /\ persistCalls' = persistCalls + 1
    /\ \E err \in BOOLEAN :
          pc' = IF pc = "running" THEN pc
                ELSE IF err THEN "persistFailed" ELSE "persisted"
    /\ UNCHANGED <<screen, fields, inputs, idx, holder, lastMsg, lastCmd, hist,
                   cancelled, submitCalls, crudVars, csvVars, shipVars>>

\* the add / edit command, after RunFormWizard has returned: one Insert or
\* Update of the holder, fatal when it fails
Persist ==
    /\ pc = "returned"
    /\ persistCalls' = persistCalls + 1
    /\ \E err \in BOOLEAN : pc' = IF err THEN "persistFailed" ELSE "persisted"
    /\ UNCHANGED <<screen, fields, inputs, idx, holder, lastMsg, lastCmd, hist,
                   cancelled, submitCalls, crudVars, csvVars, shipVars>>

Next ==
    \/ \E msg \in Msgs : Deliver(msg)
    \/ LoopQuit
    \/ Interrupt
    \/ LoopError
    \/ PanicOutcome
    \/ WizardReturn
    \/ Submit
    \/ Persist

Spec == Init /\ [][Next]_vars

(***************************************************************************)
(* Properties of the form engine and its runners                           *)
(***************************************************************************)
\* the step delivered a message to Update
Delivered == nEvents' = nEvents + 1

\* the raw text Parse is given when the delivered message is a confirm: the
\* active field's buffer once its textinput has seen the message
RawAtConfirm == inputs'[idx + 1].value

\* C1 - Sequential completion: on a non-empty field list, as long as every
\* message delivered was a confirm that Parse accepted, the cursor equals the
\* number of messages, Assign has been called once per message, for fields
\* 0, 1, ... in that order, and the quit command is issued exactly when the
\* cursor reaches len(fields), that is after len(fields) steps.
SequentialCompletion ==
    (N > 0 /\ allValid) =>
        /\ nEvents <= N
        /\ idx = nEvents
        /\ Len(assignLog) = nEvents
        /\ \A k \in 1..Len(assignLog) : assignLog[k].field = k - 1
        /\ (lastCmd = "quit") = (nEvents = N)

SequentialCompletionWitness ==
    /\ N >= 2
    /\ allValid
    /\ nEvents = N
    /\ idx = N
    /\ pc = "quitting"

\* C2 - Stuck on invalid: a confirm whose input the active field's Parse
\* rejects leaves the cursor where it is, every time; the cursor moves only on
\* a confirm whose input Parse accepts, and then to the next index.
StuckOnInvalid ==
    [][(Delivered /\ idx < N) =>
          LET valid == lastMsg' = "enter" /\ Parse(fields[idx + 1], RawAtConfirm).ok
          IN  /\ (lastMsg' = "enter" /\ ~valid) => idx' = idx
              /\ idx' # idx => (valid /\ idx' = idx + 1)
              /\ valid => idx' = idx + 1]_vars

StuckOnInvalidWitness ==
    \E i \in 1..N : rejects[i] >= 2 /\ idx = i /\ Len(assignLog) = i

\* C3 - Cancel ends the run: delivering ctrl+c in a non-terminal state makes
\* the engine issue the quit command in that step.
CancelEndsRun ==
    (lastMsg = "ctrl+c" /\ idx < N) => (lastCmd = "quit" /\ pc # "running")

\* C4 - No rollback on cancel: when the run is ended from outside with k < n
\* fields confirmed, the holder carries the values assigned by fields 0..k-1
\* and every attribute of a later field still has its value from before the run.
NoRollbackOnCancel ==
    (cancelled /\ idx < N) =>
        /\ Len(assignLog) = idx
        /\ \A j \in 1..N :
              holder[j] = IF j <= idx THEN assignLog[j].val ELSE Zero
        /\ \A j \in 1..idx :
              /\ assignLog[j].field = j - 1
              /\ assignLog[j].val # Zero

NoRollbackOnCancelWitness ==
    /\ cancelled
    /\ pc = "exited"
    /\ idx >= 1
    /\ idx < N
    /\ holder[idx] # Zero

\* C5 - Cursor range: the cursor is always within 0..len(fields).
CursorRange == idx \in 0..N

\* the terminal state of a list of two or more fields, reached through every
\* intermediate cursor value
CursorRangeWitness ==
    /\ N >= 2
    /\ idx = N
    /\ Len(assignLog) = N
    /\ ~allValid

\* C6 - Cursor monotonicity: one step changes the cursor by 0 or by +1.
CursorMonotone == [][idx' = idx \/ idx' = idx + 1]_vars

CursorMonotoneWitness ==
    /\ idx >= 1
    /\ idx < N
    /\ nEvents > idx + 1
    /\ pc = "running"

\* C7 - Assign/Parse pairing: every Assign call is made in a confirm step, for
\* the field at the cursor, with the value that this field's Parse returns for
\* this field's raw buffer in that step, and that value lands on the attribute
\* of that field.
AssignParsePairing ==
    [][assignLog' # assignLog =>
          /\ Delivered
          /\ lastMsg' = "enter"
          /\ idx < N
          /\ Parse(fields[idx + 1], RawAtConfirm).ok
          /\ assignLog' = Append(assignLog,
                 [field |-> idx, val |-> Parse(fields[idx + 1], RawAtConfirm).val])
          /\ holder'[idx + 1] = Parse(fields[idx + 1], RawAtConfirm).val]_vars

AssignParsePairingWitness ==
    /\ Len(assignLog) = 2
    /\ fields[1].kind # fields[2].kind
    /\ inputs[2].value # fields[2].Initial
    /\ inputs[1].value # inputs[2].value

\* C8 - Validation failure is local: a confirm whose input Parse rejects calls
\* no Assign, leaves the holder and the cursor as they were, issues no quit
\* command and leaves the loop running.
ValidationFailureLocal ==
    [][(Delivered /\ idx < N /\ lastMsg' = "enter"
          /\ ~Parse(fields[idx + 1], RawAtConfirm).ok) =>
          /\ assignLog' = assignLog
          /\ holder' = holder
          /\ idx' = idx
          /\ inputs' = inputs
          /\ lastCmd' # "quit"
          /\ pc' = "running"]_vars

ValidationFailureLocalWitness ==
    /\ idx < N
    /\ rejects[idx + 1] = 1
    /\ lastMsg = "enter"
    /\ pc = "running"

\* C9 - Non-confirm events are inert: in a non-terminal state a message other
\* than confirm or cancel changes at most the input of the field at the
\* cursor; cursor, holder, Assign calls, the other inputs and the state of the
\* loop stay as they were and no quit command is issued.
NonConfirmInert ==
    [][(Delivered /\ idx < N /\ lastMsg' \notin {"enter", "ctrl+c"}) =>
          /\ idx' = idx
          /\ holder' = holder
          /\ assignLog' = assignLog
          /\ \A j \in 1..N : j # idx + 1 => inputs'[j] = inputs[j]
          /\ lastCmd' # "quit"
          /\ pc' = pc]_vars

NonConfirmInertWitness ==
    /\ idx = 1
    /\ N = 2
    /\ lastMsg \in Alphabet
    /\ inputs[2].value # fields[2].Initial
    /\ inputs[1].value = fields[1].Initial
    /\ pc = "running"

\* C10 - onSubmit runs once per error-free loop exit: RunFormWizardWithSubmit
\* has called onSubmit exactly once when it is past the loop, never before the
\* loop has exited, and the only step it takes after an error-free exit is the
\* call of onSubmit, whether the engine completed or the run was cancelled.
SubmitOncePerExit ==
    /\ [](submitCalls = IF pc \in {"submitted", "submitFailed"} THEN 1 ELSE 0)
    /\ [][submitCalls' # submitCalls => pc = "exited"]_vars
    /\ [][(pc = "exited" /\ pc' \in {"submitted", "submitFailed"}) =>
              submitCalls' = submitCalls + 1]_vars

SubmitOncePerExitWitness ==
    /\ pc = "submitted"
    /\ submitCalls = 1
    /\ cancelled
    /\ idx >= 1
    /\ idx < N
    /\ holder[N] = Zero

\* the step is one of the engine: a Parse or an Assign on the holder
EngineStep ==
    \/ nEvents' # nEvents
    \/ assignLog' # assignLog
    \/ rejects' # rejects
    \/ holder' # holder
    \/ idx' # idx

\* C11 - Persistence follows the wizard: an add / edit command calls Insert or
\* Update at most once, only when the event loop has exited and RunFormWizard
\* has returned, and from then on no message reaches Update, so no Parse and
\* no Assign touches the holder.
PersistAfterWizard ==
    /\ [](persistCalls <= 1)
    /\ [](persistCalls = IF pc \in {"persisted", "persistFailed"} THEN 1 ELSE 0)
    /\ [][persistCalls' # persistCalls => pc = "returned"]_vars
    /\ [][(persistCalls > 0 \/ persistCalls' > 0) => ~EngineStep]_vars

PersistAfterWizardWitness ==
    /\ pc = "persisted"
    /\ persistCalls = 1
    /\ idx = N
    /\ N >= 2
    /\ Len(assignLog) = N

\* C12 - Event-loop failure is fatal: once the loop has failed the invocation
\* is over: onSubmit has not been called, nothing was inserted or updated,
\* and no further step is taken.
LoopFailureFatal ==
    /\ [](pc = "wizardFailed" => (submitCalls = 0 /\ persistCalls = 0))
    /\ [][pc = "wizardFailed" => UNCHANGED vars]_vars

LoopFailureFatalWitness ==
    /\ pc = "wizardFailed"
    /\ idx >= 1
    /\ holder[1] # Zero

\* C23 - The run ends only at completion or cancel: Update hands back the
\* quit command only in the step where a confirm at index len(fields) - 1 is
\* accepted and the cursor becomes len(fields), or in answer to a cancel
\* key; an accepted confirm at an earlier index, a rejected confirm and any
\* other message leave the run going.
QuitOnlyAtEnd ==
    /\ [][(Delivered /\ lastCmd' = "quit") =>
             \/ /\ lastMsg' = "enter"
                /\ idx = N - 1
                /\ idx' = N
                /\ Len(assignLog') = Len(assignLog) + 1
             \/ lastMsg' = "ctrl+c"]_vars
    /\ [][(Delivered /\ pc = "running" /\ pc' = "quitting") => lastCmd' = "quit"]_vars

QuitOnlyAtEndWitness ==
    /\ N = 2
    /\ idx = N
    /\ lastCmd = "quit"
    /\ pc = "quitting"
    /\ rejects[2] >= 1
    /\ nEvents = MaxEvents

\* C24 - Single focus: in every non-terminal state the field at the cursor
\* is focused and no other field is.
SingleFocus ==
    idx < N => \A i \in 1..N : inputs[i].focus <=> (i = idx + 1)

\* C30 - No event is handled past the end: no message is delivered to
\* Update while the cursor equals len(fields), so Update never faults on
\* fields[cursor].
NoEventPastEnd ==
    /\ [][Delivered => idx < N]_vars
    /\ [](pc # "panicked")

\* C27 - Rendering is a function of state only: with the cursor at a field
\* i, what View rendered is the progress indicator i + 1 of n (between 1 and
\* n), the label and the raw buffer of field i, and the help text; with the
\* cursor at len(fields) it rendered nothing.
RenderingOfState ==
    /\ idx < N =>
          /\ screen.shown
          /\ screen.step = idx + 1
          /\ screen.step >= 1 /\ screen.step <= N
          /\ screen.of = N
          /\ screen.label = Labels[idx + 1]
          /\ screen.input.text = inputs[idx + 1].value
          /\ screen.help = "(enter to confirm, ctrl+c to cancel)"
    /\ idx = N => ~screen.shown

RenderingOfStateWitness ==
    /\ N = 2
    /\ idx = 1
    /\ pc = "running"
    /\ screen.step = 2
    /\ screen.label = "second"
    /\ screen.input.text = <<"1">>
    /\ inputs[1].value # <<"1">>

\* C31 - Only complete records are persisted: whenever an add / edit command
\* has called Insert or Update, the engine reached cursor = len(fields) in
\* that run and every field's Assign was applied to the holder, once each in
\* field order; a run that ended earlier persists nothing.
OnlyCompletePersisted ==
    persistCalls > 0 =>
        /\ idx = N
        /\ Len(assignLog) = N
        /\ \A k \in 1..Len(assignLog) : assignLog[k].field = k - 1

(***************************************************************************)
(* RegisterCrudSubcommands: list, rm and the completion of rm's argument   *)
(***************************************************************************)
\* longest sequence ListFn returns
MaxItems == 3

Ids == {1, 2, 12}

Humans == {"ann", "bob"}

\* the items of the descriptor's type T, as Format sees them; two of them
\* share an identity
Items ==
    {it \in [id : Ids, human : Humans] : it.id = 12 \/ (it.id = 1 <=> it.human = "ann")}

Stores == SeqsUpTo(Items, MaxItems)

\* the arguments rm is given
Tokens ==
    { <<>>, <<"a", "b", "c">>, <<"1">>, <<"2">>, <<"1", "2">>, <<"7">>,
      <<"+", "2">>, <<"-", "1">>, <<"1", "a">>, <<" ", "1">>, <<"-">>,
      <<"0", "1">>, MinInt64Digits }

\* the text the shell asks completions for
Prefixes == { <<>>, <<"1">>, <<"2">>, <<"1", "2">>, <<"2", "1">>, <<"3">> }

\* no wizard runs
WizardIdle ==
    /\ fields = <<>>
    /\ inputs = <<>>
    /\ idx = 0
    /\ holder = <<>>
    /\ pc = "idle"
    /\ lastMsg = "none"
    /\ lastCmd = "nil"
    /\ assignLog = <<>>
    /\ rejects = <<>>
    /\ nEvents = 0
    /\ allValid = TRUE
    /\ cancelled = FALSE
    /\ submitCalls = 0
    /\ persistCalls = 0
    /\ screen = Blank

InitCrud ==
    /\ WizardIdle
    /\ CsvIdle
    /\ ShipIdle
    /\ store \in Stores
    /\ crudCmd = [name |-> "none", arg |-> <<>>, listFault |-> FALSE, dbFault |-> FALSE]
    /\ listCalls = 0
    /\ formatCalls = <<>>
    /\ removeCalls = <<>>
    /\ crudOut = <<>>
    /\ crudExit = "none"
    /\ comps = <<>>
    /\ gone = 0
    /\ conn = NoConn
    /\ connSeen = <<>>
    /\ hooksRun = <<>>

\* desc.ListFn: the items in the descriptor's order, or an error (the items
\* that come with an error are whatever the descriptor returns)
ListFn(st, fault, partial) ==
    [err |-> fault, items |-> IF fault /\ ~partial THEN <<>> ELSE st]

\* desc.Format
Format(it) == [id |-> it.id, human |-> it.human]

\* fmt.Printf("%d\t%s\n", id, human)
Line(f) == [id |-> FormatInt(f.id), human |-> f.human]

\* fmt.Printf("Removed %s %d\n", desc.Singular, raw)
RemovedLine(n) == [id |-> FormatInt(n), human |-> "Removed"]

\* the first position of an item in a sequence
FirstAt(items, it) == CHOOSE k \in 1..Len(items) :
    items[k] = it /\ \A j \in 1..(k - 1) : items[j] # it

\* variant: an item that was printed already is skipped
RunListDedup(res) ==
    IF res.err THEN [out |-> <<>>, formats |-> <<>>, exit |-> "fatal"]
    ELSE LET firsts == SelectSeq([k \in 1..Len(res.items) |-> k],
                                 LAMBDA k : FirstAt(res.items, res.items[k]) = k)
             kept == [j \in 1..Len(firsts) |-> res.items[firsts[j]]]
         IN  [out |-> [k \in 1..Len(kept) |-> Line(Format(kept[k]))],
              formats |-> kept, exit |-> "ok"]

\* variant: the lines are printed before the error is looked at
RunListEager(res) ==
    [out |-> [k \in 1..Len(res.items) |-> Line(Format(res.items[k]))],
     formats |-> res.items,
     exit |-> IF res.err THEN "fatal" ELSE "ok"]

\* list.Run on the result of ListFn
RunList(res) ==
    IF res.err THEN [out |-> <<>>, formats |-> <<>>, exit |-> "fatal"]
    ELSE [out |-> [k \in 1..Len(res.items) |-> Line(Format(res.items[k]))],
          formats |-> res.items, exit |-> "ok"]

ListCmd(fault, partial) ==
    /\ pc = "idle"
    /\ LET r == RunList(ListFn(store, fault, partial))
       IN  /\ crudOut' = r.out
           /\ formatCalls' = r.formats
           /\ crudExit' = r.exit
    /\ crudCmd' = [name |-> "list", arg |-> <<>>, listFault |-> fault, dbFault |-> FALSE]
    /\ listCalls' = 1
    /\ removeCalls' = <<>>
    /\ comps' = <<>>
    /\ connSeen' = <<ConnInRun("list")>>
    /\ hooksRun' = HooksOf("list", crudExit')
    /\ conn' = ConnAtEnd("list", crudExit')
    /\ UNCHANGED <<store, gone, wizardVars, csvVars, shipVars>>

\* desc.RemoveFn: find the item by its identity, then delete it; an error
\* when it is not found or when the database fails
RemoveFn(st, id, fault) ==
    LET found == \E k \in 1..Len(st) : st[k].id = id
        err == ~found \/ fault
    IN  [err |-> err,
         store |-> IF err THEN st ELSE SelectSeq(st, LAMBDA it : it.id # id)]

\* variant: RemoveFn is only called for an identity the list holds
RunRmKnownOnly(token, st, fault) ==
    LET p == ParseInt(token)
        r == RemoveFn(st, p.val, fault)
    IN  IF ~p.ok \/ ~(\E k \in 1..Len(st) : st[k].id = p.val)
        THEN [out |-> <<>>, removes |-> <<>>, exit |-> "fatal", store |-> st]
        ELSE IF r.err
        THEN [out |-> <<>>, removes |-> <<p.val>>, exit |-> "fatal", store |-> r.store]
        ELSE [out |-> <<RemovedLine(p.val)>>, removes |-> <<p.val>>, exit |-> "ok",
              store |-> r.store]

\* variant: the error of RemoveFn is not looked at
RunRmIgnoreError(token, st, fault) ==
    LET p == ParseInt(token)
        r == RemoveFn(st, p.val, fault)
    IN  IF ~p.ok
        THEN [out |-> <<>>, removes |-> <<>>, exit |-> "fatal", store |-> st]
        ELSE [out |-> <<RemovedLine(p.val)>>, removes |-> <<p.val>>, exit |-> "ok",
              store |-> r.store]

\* rm.Run on its one argument
RunRm(token, st, fault) ==
    LET p == ParseInt(token)
        r == RemoveFn(st, p.val, fault)
    IN  IF ~p.ok
        THEN [out |-> <<>>, removes |-> <<>>, exit |-> "fatal", store |-> st]
        ELSE IF r.err
        THEN [out |-> <<>>, removes |-> <<p.val>>, exit |-> "fatal", store |-> r.store]
        ELSE [out |-> <<RemovedLine(p.val)>>, removes |-> <<p.val>>, exit |-> "ok",
              store |-> r.store]

\* cobra.ExactArgs(1) lets Run see exactly one argument
RmCmd(token, fault) ==
    /\ pc = "idle"
    /\ LET r == RunRm(token, store, fault)
       IN  /\ crudOut' = r.out
           /\ removeCalls' = r.removes
           /\ crudExit' = r.exit
           /\ store' = r.store
           /\ gone' = IF r.exit = "ok" THEN r.removes[1] ELSE gone
    /\ crudCmd' = [name |-> "rm", arg |-> token, listFault |-> FALSE, dbFault |-> fault]
    /\ listCalls' = 0
    /\ formatCalls' = <<>>
    /\ comps' = <<>>
    /\ connSeen' = [k \in 1..Len(removeCalls') |-> ConnInRun("rm")]
    /\ hooksRun' = HooksOf("rm", crudExit')
    /\ conn' = ConnAtEnd("rm", crudExit')
    /\ UNCHANGED <<wizardVars, csvVars, shipVars>>

\* s holds p somewhere
Contains(s, p) == \E k \in 0..(Len(s) - Len(p)) : SubSeq(s, k + 1, k + Len(p)) = p

\* variant: an identity is offered when the text occurs anywhere in it
CompleteContains(res, toComplete) ==
    IF res.err THEN [comps |-> <<>>, formats |-> <<>>, exit |-> "ShellCompDirectiveError"]
    ELSE LET all == [k \in 1..Len(res.items) |-> FormatInt(Format(res.items[k]).id)]
         IN  [comps |-> SelectSeq(all, LAMBDA t : toComplete = <<>> \/ Contains(t, toComplete)),
              formats |-> res.items,
              exit |-> "ShellCompDirectiveNoFileComp"]

\* variant: a failing ListFn ends the process as it does in list
CompleteFatal(res, toComplete) ==
    IF res.err THEN [comps |-> <<>>, formats |-> <<>>, exit |-> "fatal"]
    ELSE LET all == [k \in 1..Len(res.items) |-> FormatInt(Format(res.items[k]).id)]
         IN  [comps |-> SelectSeq(all, LAMBDA t : toComplete = <<>> \/ HasPrefix(t, toComplete)),
              formats |-> res.items,
              exit |-> "ShellCompDirectiveNoFileComp"]

\* variant: the identity removed last is still offered, as from a list
\* kept from an earlier request
CompleteStale(res, toComplete) ==
    IF res.err THEN [comps |-> <<>>, formats |-> <<>>, exit |-> "ShellCompDirectiveError"]
    ELSE LET all == [k \in 1..Len(res.items) |-> FormatInt(Format(res.items[k]).id)]
                    \o (IF gone # 0 THEN <<FormatInt(gone)>> ELSE <<>>)
         IN  [comps |-> SelectSeq(all, LAMBDA t : toComplete = <<>> \/ HasPrefix(t, toComplete)),
              formats |-> res.items,
              exit |-> "ShellCompDirectiveNoFileComp"]

\* rm.ValidArgsFunction on the result of ListFn
Complete(res, toComplete) ==
    IF res.err THEN [comps |-> <<>>, formats |-> <<>>, exit |-> "ShellCompDirectiveError"]
    ELSE LET all == [k \in 1..Len(res.items) |-> FormatInt(Format(res.items[k]).id)]
         IN  [comps |-> SelectSeq(all, LAMBDA t : toComplete = <<>> \/ HasPrefix(t, toComplete)),
              formats |-> res.items,
              exit |-> "ShellCompDirectiveNoFileComp"]

CompleteCmd(toComplete, fault, partial) ==
    /\ pc = "idle"
    /\ LET r == Complete(ListFn(store, fault, partial), toComplete)
       IN  /\ comps' = r.comps
           /\ formatCalls' = r.formats
           /\ crudExit' = r.exit
    /\ crudCmd' = [name |-> "complete", arg |-> toComplete, listFault |-> fault,
                   dbFault |-> FALSE]
    /\ listCalls' = 1
    /\ removeCalls' = <<>>
    /\ crudOut' = <<>>
    /\ connSeen' = <<ConnInRun("complete")>>
    /\ hooksRun' = HooksOf("complete", crudExit')
    /\ conn' = ConnAtEnd("complete", crudExit')
    /\ UNCHANGED <<store, gone, wizardVars, csvVars, shipVars>>

\* an add command of the entity: its Insert puts one more item in the store,
\* or fails and leaves it as it is
InsertCmd(it, fault) ==
    /\ pc = "idle"
    /\ Len(store) < MaxItems
    /\ store' = IF fault THEN store ELSE Append(store, it)
    /\ gone' = IF ~fault /\ gone = it.id THEN 0 ELSE gone
    /\ crudCmd' = [name |-> "add", arg |-> <<>>, listFault |-> FALSE, dbFault |-> fault]
    /\ crudExit' = IF fault THEN "fatal" ELSE "ok"
    /\ listCalls' = 0
    /\ formatCalls' = <<>>
    /\ removeCalls' = <<>>
    /\ crudOut' = <<>>
    /\ comps' = <<>>
    /\ connSeen' = <<ConnInRun("add")>>
    /\ hooksRun' = HooksOf("add", crudExit')
    /\ conn' = ConnAtEnd("add", crudExit')
    /\ UNCHANGED <<wizardVars, csvVars, shipVars>>

\* persistentPreRun when db.InitDB fails: log.Fatalf before Run, db.Conn
\* was never set
PreRunFailCmd ==
    /\ pc = "idle"
    /\ crudCmd' = [name |-> "preRunFailed", arg |-> <<>>, listFault |-> FALSE,
                   dbFault |-> TRUE]
    /\ crudExit' = "fatal"
    /\ listCalls' = 0
    /\ formatCalls' = <<>>
    /\ removeCalls' = <<>>
    /\ crudOut' = <<>>
    /\ comps' = <<>>
    /\ connSeen' = <<>>
    /\ hooksRun' = <<"pre">>
    /\ conn' = NoConn
    /\ UNCHANGED <<store, gone, wizardVars, csvVars, shipVars>>

\* any number of invocations, one after the other, on the same store; the
\* items that come with an error of ListFn matter only when it fails, a
\* failing database only when rm reaches RemoveFn
NextCrud ==
    \/ \E fault \in BOOLEAN, partial \in BOOLEAN :
          (partial => fault) /\ ListCmd(fault, partial)
    \/ \E token \in Tokens, fault \in BOOLEAN :
          (fault => ParseInt(token).ok) /\ RmCmd(token, fault)
    \/ \E toComplete \in Prefixes, fault \in BOOLEAN, partial \in BOOLEAN :
          (partial => fault) /\ CompleteCmd(toComplete, fault, partial)
    \/ \E it \in Items, fault \in BOOLEAN : InsertCmd(it, fault)
    \/ PreRunFailCmd

SpecCrud == InitCrud /\ [][NextCrud]_vars

\* C13 - List ordering fidelity: a list whose ListFn succeeded printed one
\* line per item, the k-th line made of the identity and the text Format
\* gives for the k-th item, in the order of the list: nothing is sorted,
\* dropped or merged.
ListOrderFidelity ==
    (crudCmd.name = "list" /\ ~crudCmd.listFault) =>
        /\ crudExit = "ok"
        /\ Len(crudOut) = Len(store)
        /\ formatCalls = store
        /\ \A k \in 1..Len(store) :
             crudOut[k] = [id |-> FormatInt(store[k].id), human |-> store[k].human]

ListOrderFidelityWitness ==
    /\ crudCmd.name = "list"
    /\ crudExit = "ok"
    /\ Len(crudOut) = 3
    /\ store[1].id = 12
    /\ store[2].id = 1
    /\ store[3] = store[1]
    /\ crudOut[3] = [id |-> <<"1", "2">>, human |-> store[1].human]

\* C14 - No partial listing: a list whose ListFn failed printed no item
\* line, never called Format, and ended with an error.
NoPartialListing ==
    (crudCmd.name = "list" /\ crudCmd.listFault) =>
        /\ crudOut = <<>>
        /\ formatCalls = <<>>
        /\ crudExit = "fatal"

NoPartialListingWitness ==
    /\ crudCmd.name = "list"
    /\ crudCmd.listFault
    /\ crudExit = "fatal"
    /\ Len(store) >= 2

\* the tokens that are no base-10 int64: letters, the empty token, a bare
\* sign, inner spaces, trailing letters, and 2^63
MalformedTokens ==
    { <<>>, <<"a", "b", "c">>, <<"1", "a">>, <<" ", "1">>, <<"-">>, MinInt64Digits }

\* C15 - Malformed removal identity: rm with a token that is no base-10
\* int64 fails, never calls RemoveFn and prints no confirmation.
MalformedIdentity ==
    (crudCmd.name = "rm" /\ crudCmd.arg \in MalformedTokens) =>
        /\ crudExit = "fatal"
        /\ removeCalls = <<>>
        /\ crudOut = <<>>

MalformedIdentityWitness ==
    /\ crudCmd.name = "rm"
    /\ crudCmd.arg = MinInt64Digits
    /\ crudExit = "fatal"
    /\ removeCalls = <<>>
    /\ store # <<>>

\* the identity a well-formed token of Tokens denotes
TokenValue(t) ==
    CASE t = <<"1">> -> 1
      [] t = <<"2">> -> 2
      [] t = <<"1", "2">> -> 12
      [] t = <<"7">> -> 7
      [] t = <<"+", "2">> -> 2
      [] t = <<"-", "1">> -> 0 - 1
      [] t = <<"0", "1">> -> 1

\* C16 - Well-formed identity: rm with a token that denotes the int64 n
\* called RemoveFn exactly once, with n.
WellFormedIdentity ==
    (crudCmd.name = "rm" /\ crudCmd.arg \in (Tokens \ MalformedTokens)) =>
        removeCalls = <<TokenValue(crudCmd.arg)>>

WellFormedIdentityWitness ==
    /\ crudCmd.name = "rm"
    /\ crudCmd.arg = <<"7">>
    /\ removeCalls = <<7>>
    /\ crudExit = "fatal"

\* C17 - Removal confirmation: rm prints "Removed <singular> <n>" exactly
\* when RemoveFn returned no error; when it returned one the command fails,
\* prints nothing and does not call RemoveFn again.
ConfirmIffRemoved ==
    [][(crudCmd'.name = "rm" /\ Len(removeCalls') >= 1) =>
          LET n == removeCalls'[1]
              failed == crudCmd'.dbFault \/ ~(\E k \in 1..Len(store) : store[k].id = n)
          IN  /\ Len(removeCalls') = 1
              /\ failed => (crudOut' = <<>> /\ crudExit' = "fatal")
              /\ ~failed => (crudOut' = <<[id |-> FormatInt(n), human |-> "Removed"]>>
                             /\ crudExit' = "ok")]_vars

ConfirmIffRemovedWitness ==
    /\ crudCmd.name = "rm"
    /\ crudCmd.dbFault
    /\ removeCalls = <<12>>
    /\ \E k \in 1..Len(store) : store[k].id = 12
    /\ crudOut = <<>>
    /\ crudExit = "fatal"

\* the positions of the items whose identity, as decimal text, starts with p
Matching(p) == {k \in 1..Len(store) : HasPrefix(FormatInt(store[k].id), p)}

\* the j-th smallest position of a set of positions
Nth(S, j) == CHOOSE k \in S : Cardinality({i \in S : i < k}) = j - 1

\* C18 - Completion prefix filter: a completion whose ListFn succeeded
\* offers exactly the decimal text of the identities that start with the
\* typed text, in list order; none when nothing matches, all of them when
\* the typed text is empty.
CompletionPrefixFilter ==
    (crudCmd.name = "complete" /\ ~crudCmd.listFault) =>
        /\ Len(comps) = Cardinality(Matching(crudCmd.arg))
        /\ \A j \in 1..Len(comps) :
             comps[j] = FormatInt(store[Nth(Matching(crudCmd.arg), j)].id)
        /\ crudCmd.arg = <<>> => Len(comps) = Len(store)
        /\ crudExit = "ShellCompDirectiveNoFileComp"

CompletionPrefixFilterWitness ==
    /\ crudCmd.name = "complete"
    /\ crudCmd.arg = <<"1">>
    /\ Len(store) = 3
    /\ store[1].id = 1
    /\ store[2].id = 2
    /\ store[3].id = 12
    /\ comps = << <<"1">>, <<"1", "2">> >>

\* C19 - Completion failure degrades: a completion whose ListFn failed
\* offers no candidate, reports the error directive and does not end the
\* process.
CompletionDegrades ==
    (crudCmd.name = "complete" /\ crudCmd.listFault) =>
        /\ comps = <<>>
        /\ formatCalls = <<>>
        /\ crudExit = "ShellCompDirectiveError"

CompletionDegradesWitness ==
    /\ crudCmd.name = "complete"
    /\ crudCmd.listFault
    /\ crudExit = "ShellCompDirectiveError"
    /\ store # <<>>

\* the identities a completion offered
Offered == {comps[j] : j \in 1..Len(comps)}

\* C26 - Completion holds no cache: every completion calls ListFn and
\* derives the identities anew, so after a successful rm of x no completion
\* offers x until x is created again, and a completion that follows the
\* creation of an identity offers it when the typed text is a prefix of it.
CompletionNoCache ==
    /\ []((crudCmd.name = "complete" /\ ~crudCmd.listFault) =>
            /\ listCalls = 1
            /\ formatCalls = store
            /\ gone # 0 => FormatInt(gone) \notin Offered)
    /\ [][(crudCmd.name = "add" /\ crudExit = "ok" /\ crudCmd'.name = "complete"
           /\ ~crudCmd'.listFault
           /\ HasPrefix(FormatInt(store[Len(store)].id), crudCmd'.arg)) =>
             \E j \in 1..Len(comps') : comps'[j] = FormatInt(store[Len(store)].id)]_vars

CompletionNoCacheWitness ==
    /\ crudCmd.name = "complete"
    /\ crudCmd.arg = <<"1">>
    /\ crudExit = "ShellCompDirectiveNoFileComp"
    /\ gone = 12
    /\ comps = << <<"1">> >>
    /\ Len(store) = 2

\* C33 - Store connection lifetime: every call of ListFn or RemoveFn made
\* by list, rm or the identity completion gets a db.Conn that the pre-run
\* hook has set and nothing has closed; when the post-run hook has run, the
\* connection is closed and db.Conn is nil.
ConnLifetime ==
    /\ crudCmd.name \in {"list", "rm", "complete"} =>
          \A k \in 1..Len(connSeen) :
             /\ connSeen[k] = [handle |-> "set", state |-> "open"]
             /\ hooksRun # <<>> /\ hooksRun[1] = "pre"
    /\ (hooksRun # <<>> /\ hooksRun[Len(hooksRun)] = "post") =>
          conn = [handle |-> "nil", state |-> "closed"]

(***************************************************************************)
(* The CSV commands: add (append a row) and edit (replace a row)           *)
(***************************************************************************)
\* most headers a configuration names
MaxHeaders == 2
\* most data rows of the file before the first invocation
MaxRows == 2

HeaderNames == <<"h1", "h2", "h3", "h4">>

\* the effective headers: none, or the first n names
HeaderLists == {SubSeq(HeaderNames, 1, n) : n \in 0..MaxHeaders}

\* cells of the file before the first invocation, of the command line, and
\* of the text typed into the TUI
FileCells == {"x"}

ArgCells == {"y"}

TypedCells == {"z"}

\* the field arguments of one invocation: some values, or one empty string
ArgLists == SeqsUpTo(ArgCells, MaxHeaders + 1) \cup { <<"">> }

\* the first argument of edit
IndexTokens == { <<"0">>, <<"1">>, <<"2">>, <<"3">>, <<"x">>, <<"-", "1">> }

Paths == {"", "data.csv"}

FileRows == {r \in SeqsUpTo(FileCells, MaxHeaders) : r # <<>>}

\* a file: missing, empty, or a header row followed by data rows
Files ==
    {Absent, File(<<>>)} \cup
    {File(<<h>> \o d) : h \in (HeaderLists \ {<<>>}), d \in SeqsUpTo(FileRows, MaxRows)}

InitCsv ==
    /\ WizardIdle
    /\ CrudIdle
    /\ ShipIdle
    /\ csvFile \in Files
    /\ tmpFile = Absent
    /\ csvCmd = [name |-> "none", path |-> "", noTUI |-> FALSE, hdrs |-> <<>>,
                 args |-> <<>>, tuiEnd |-> "none"]
    /\ csvExit = "none"
    /\ csvLog = <<>>

\* what tea.Program.Run hands back: an error, or the model as the key that
\* ended the run left it: "enter" on the last field once every value is
\* confirmed, "esc" or "ctrl+c" at a field before that
TuiOutcomes(hdrs) ==
    {[err |-> TRUE, entered |-> <<>>, end |-> "none"]} \cup
    {t \in [err : {FALSE}, entered : SeqsUpTo(TypedCells, Len(hdrs)),
            end : {"enter", "esc", "ctrl+c"}] :
        (t.end = "enter") <=> (Len(t.entered) = Len(hdrs))}

\* addModel.values after the run: the confirmed values, then ""
AddValues(hdrs, entered) ==
    [i \in 1..Len(hdrs) |-> IF i <= Len(entered) THEN entered[i] ELSE ""]

\* editModel.values after the run: the confirmed values, then what
\* copy(m.values, orig) put there
EditValues(hdrs, orig, entered) ==
    [i \in 1..Len(hdrs) |->
        IF i <= Len(entered) THEN entered[i]
        ELSE IF i <= Len(orig) THEN orig[i] ELSE ""]

\* csv.Reader.ReadAll: blank lines are skipped, and every record must have
\* as many fields as the first
ReadAll(rows) ==
    LET kept == SelectSeq(rows, LAMBDA r : r # <<"">>)
    IN  [err |-> \E k \in 1..Len(kept) : Len(kept[k]) # Len(kept[1]),
         rows |-> kept]

\* os.OpenFile(path, O_CREATE|O_RDWR|O_APPEND), the header when the file is
\* empty, then the record
AppendRecord(file, hdrs, record) ==
    File((IF file.rows = <<>> THEN <<hdrs>> ELSE file.rows) \o <<record>>)

CsvResult(file, tmp, exit) == [file |-> file, tmp |-> tmp, exit |-> exit]

\* addCmd.Run
RunAdd(file, tmp, path, hdrs, noTUI, args, tui, ioErr) ==
    IF path = "" \/ hdrs = <<>> THEN CsvResult(file, tmp, "fatal")
    ELSE IF noTUI /\ Len(args) # Len(hdrs) THEN CsvResult(file, tmp, "fatal")
    ELSE IF ~noTUI /\ tui.err THEN CsvResult(file, tmp, "fatal")
    ELSE IF ioErr = "open" THEN CsvResult(file, tmp, "fatal")
    ELSE CsvResult(AppendRecord(file, hdrs,
                          IF noTUI THEN args ELSE AddValues(hdrs, tui.entered)),
                   tmp, "ok")

\* one invocation of add
AddStep(path, hdrs, noTUI, args, tui, ioErr) ==
    /\ pc = "idle"
    /\ LET r == RunAdd(csvFile, tmpFile, path, hdrs, noTUI, args, tui, ioErr)
       IN  /\ csvFile' = r.file
           /\ tmpFile' = r.tmp
           /\ csvExit' = r.exit
           /\ csvLog' = Append(csvLog,
                 [name |-> "add", hdrs |-> hdrs,
                  record |-> IF noTUI THEN args ELSE AddValues(hdrs, tui.entered),
                  exit |-> r.exit])
    /\ csvCmd' = [name |-> "add", path |-> path, noTUI |-> noTUI, hdrs |-> hdrs,
                  args |-> args, tuiEnd |-> tui.end]
    /\ UNCHANGED <<wizardVars, crudVars, shipVars>>

\* the one invocation of a behaviour that runs a single command
AddCmd(path, hdrs, noTUI, args, tui, ioErr) ==
    /\ csvExit = "none"
    /\ AddStep(path, hdrs, noTUI, args, tui, ioErr)

\* variant: the number of new values is not compared with the headers
RunEditUnchecked(file, tmp, path, hdrs, noTUI, tok, newVals, tui, ioErr) ==
    LET p == ParseInt(tok)
        rd == ReadAll(file.rows)
        orig == rd.rows[p.val + 1]
        updated == IF noTUI THEN newVals ELSE EditValues(hdrs, orig, tui.entered)
        rows == [rd.rows EXCEPT ![p.val + 1] = updated]
    IN  IF ~p.ok \/ path = "" \/ hdrs = <<>> THEN CsvResult(file, tmp, "fatal")
        ELSE IF file = Absent THEN CsvResult(file, tmp, "fatal")
        ELSE IF rd.err THEN CsvResult(file, tmp, "fatal")
        ELSE IF p.val < 1 \/ p.val >= Len(rd.rows) THEN CsvResult(file, tmp, "fatal")
        ELSE IF ~noTUI /\ Len(orig) < Len(hdrs) THEN CsvResult(file, tmp, "panic")
        ELSE IF ~noTUI /\ tui.err THEN CsvResult(file, tmp, "fatal")
        ELSE IF ioErr = "open" THEN CsvResult(file, tmp, "fatal")
        ELSE IF ioErr = "rename" THEN CsvResult(file, File(rows), "fatal")
        ELSE CsvResult(File(rows), Absent, "ok")

\* variant: the row number is compared with 0, so the header row is taken
RunEditFromZero(file, tmp, path, hdrs, noTUI, tok, newVals, tui, ioErr) ==
    LET p == ParseInt(tok)
        rd == ReadAll(file.rows)
        orig == rd.rows[p.val + 1]
        updated == IF noTUI THEN newVals ELSE EditValues(hdrs, orig, tui.entered)
        rows == [rd.rows EXCEPT ![p.val + 1] = updated]
    IN  IF ~p.ok \/ path = "" \/ hdrs = <<>> THEN CsvResult(file, tmp, "fatal")
        ELSE IF file = Absent THEN CsvResult(file, tmp, "fatal")
        ELSE IF rd.err THEN CsvResult(file, tmp, "fatal")
        ELSE IF p.val < 0 \/ p.val >= Len(rd.rows) THEN CsvResult(file, tmp, "fatal")
        ELSE IF noTUI /\ Len(newVals) # Len(hdrs) THEN CsvResult(file, tmp, "fatal")
        ELSE IF ~noTUI /\ Len(orig) < Len(hdrs) THEN CsvResult(file, tmp, "panic")
        ELSE IF ~noTUI /\ tui.err THEN CsvResult(file, tmp, "fatal")
        ELSE IF ioErr = "open" THEN CsvResult(file, tmp, "fatal")
        ELSE IF ioErr = "rename" THEN CsvResult(file, File(rows), "fatal")
        ELSE CsvResult(File(rows), Absent, "ok")

\* editCmd.Run: the row number, the file read whole, the new values from
\* the arguments or from the TUI, then the rows written to path.tmp, which
\* is renamed to path
RunEdit(file, tmp, path, hdrs, noTUI, tok, newVals, tui, ioErr) ==
    LET p == ParseInt(tok)
        rd == ReadAll(file.rows)
        orig == rd.rows[p.val + 1]
        updated == IF noTUI THEN newVals ELSE EditValues(hdrs, orig, tui.entered)
        rows == [rd.rows EXCEPT ![p.val + 1] = updated]
    IN  IF ~p.ok \/ path = "" \/ hdrs = <<>> THEN CsvResult(file, tmp, "fatal")
        ELSE IF file = Absent THEN CsvResult(file, tmp, "fatal")
        ELSE IF rd.err THEN CsvResult(file, tmp, "fatal")
        ELSE IF p.val < 1 \/ p.val >= Len(rd.rows) THEN CsvResult(file, tmp, "fatal")
        ELSE IF noTUI /\ Len(newVals) # Len(hdrs) THEN CsvResult(file, tmp, "fatal")
        ELSE IF ~noTUI /\ Len(orig) < Len(hdrs) THEN CsvResult(file, tmp, "panic")
        ELSE IF ~noTUI /\ tui.err THEN CsvResult(file, tmp, "fatal")
        ELSE IF ioErr = "open" THEN CsvResult(file, tmp, "fatal")
        ELSE IF ioErr = "rename" THEN CsvResult(file, File(rows), "fatal")
        ELSE CsvResult(File(rows), Absent, "ok")

\* cobra.MinimumNArgs(1) lets Run see the row number and any new values
EditCmd(path, hdrs, noTUI, tok, newVals, tui, ioErr) ==
    /\ pc = "idle"
    /\ csvExit = "none"
    /\ LET r == RunEdit(csvFile, tmpFile, path, hdrs, noTUI, tok, newVals, tui, ioErr)
       IN  /\ csvFile' = r.file
           /\ tmpFile' = r.tmp
           /\ csvExit' = r.exit
           /\ csvLog' = Append(csvLog,
                 [name |-> "edit", hdrs |-> hdrs, record |-> newVals, exit |-> r.exit])
    /\ csvCmd' = [name |-> "edit", path |-> path, noTUI |-> noTUI, hdrs |-> hdrs,
                  args |-> <<tok>> \o newVals, tuiEnd |-> tui.end]
    /\ UNCHANGED <<wizardVars, crudVars, shipVars>>

\* the run of a --no-tui invocation starts no TUI
NoTui == [err |-> FALSE, entered |-> <<>>, end |-> "none"]

\* one invocation on the file as it is found; the field arguments of an
\* invocation that starts the TUI are not looked at
NextCsv ==
    \/ \E path \in Paths, hdrs \in HeaderLists, ioErr \in {"none", "open"} :
          \/ \E args \in ArgLists : AddCmd(path, hdrs, TRUE, args, NoTui, ioErr)
          \/ \E tui \in TuiOutcomes(hdrs) : AddCmd(path, hdrs, FALSE, <<>>, tui, ioErr)
    \/ \E path \in Paths, hdrs \in HeaderLists, tok \in IndexTokens,
          ioErr \in {"none", "open", "rename"} :
          \/ \E newVals \in ArgLists :
                EditCmd(path, hdrs, TRUE, tok, newVals, NoTui, ioErr)
          \/ \E tui \in TuiOutcomes(hdrs) :
                EditCmd(path, hdrs, FALSE, tok, <<>>, tui, ioErr)

SpecCsv == InitCsv /\ [][NextCsv]_vars

\* most add invocations in a row on one file
MaxAdds == 2

\* add invocations one after the other on a file that starts absent or empty
InitCsvAdds ==
    /\ WizardIdle
    /\ CrudIdle
    /\ ShipIdle
    /\ csvFile \in {Absent, File(<<>>)}
    /\ tmpFile = Absent
    /\ csvCmd = [name |-> "none", path |-> "", noTUI |-> FALSE, hdrs |-> <<>>,
                 args |-> <<>>, tuiEnd |-> "none"]
    /\ csvExit = "none"
    /\ csvLog = <<>>

NextCsvAdds ==
    /\ Len(csvLog) < MaxAdds
    /\ \E hdrs \in HeaderLists :
          \/ \E args \in ArgLists : AddStep("data.csv", hdrs, TRUE, args, NoTui, "none")
          \/ \E tui \in TuiOutcomes(hdrs) :
                AddStep("data.csv", hdrs, FALSE, <<>>, tui, "none")

SpecCsvAdds == InitCsvAdds /\ [][NextCsvAdds]_vars

\* the field arguments of the invocation
FieldArgs(c) == IF c.name = "edit" THEN Tail(c.args) ELSE c.args

\* C20 - Wrong field-argument count: a --no-tui add or edit whose field
\* arguments are not as many as the headers reports an error and ends, and
\* the file keeps every row it had: nothing is appended, replaced or
\* written, not even to the temporary file.
WrongCountWritesNothing ==
    [][(csvExit = "none" /\ csvExit' # "none" /\ csvCmd'.noTUI /\
        Len(FieldArgs(csvCmd')) # Len(csvCmd'.hdrs)) =>
          /\ csvExit' = "fatal"
          /\ csvFile' = csvFile
          /\ tmpFile' = tmpFile]_vars

WrongCountWritesNothingWitness ==
    /\ csvCmd.name = "edit"
    /\ csvCmd.noTUI
    /\ csvCmd.hdrs = <<"h1", "h2">>
    /\ csvCmd.args = << <<"1">>, "y" >>
    /\ csvExit = "fatal"
    /\ csvFile = File(<< <<"h1", "h2">>, <<"x", "x">> >>)
    /\ tmpFile = Absent

\* C28 - Cancelling the interactive add: when Esc or ctrl+c ends the TUI
\* of add before every value is confirmed, the command leaves the file as
\* it was: no record row is appended.
CancelAppendsNothing ==
    [][(csvExit = "none" /\ csvCmd'.name = "add" /\ ~csvCmd'.noTUI
        /\ csvCmd'.path # "" /\ csvCmd'.hdrs # <<>>
        /\ csvCmd'.tuiEnd \in {"esc", "ctrl+c"}) =>
          csvFile' = csvFile]_vars

(***************************************************************************)
(* The wizards the program ships: the field lists of org, contact, event   *)
(* and task, add and edit, run over records of the generated models.       *)
(***************************************************************************)
Wizards ==
    {"orgAdd", "orgEdit", "contactAdd", "contactEdit",
     "eventAdd", "eventEdit", "taskAdd", "taskEdit"}

\* the record type a wizard is handed
Entity(w) ==
    CASE w \in {"orgAdd", "orgEdit"} -> "org"
      [] w \in {"contactAdd", "contactEdit"} -> "contact"
      [] w \in {"eventAdd", "eventEdit"} -> "event"
      [] w \in {"taskAdd", "taskEdit"} -> "task"

\* the create flows: they start from a freshly allocated record
IsAdd(w) == w \in {"orgAdd", "contactAdd", "eventAdd", "taskAdd"}

\* the attributes of each record type and their Go types, as the program
\* uses them
Types(entity) ==
    CASE entity = "org" ->
           [ID |-> "null.Int64", Name |-> "string", Location |-> "null.String",
            Created |-> "time.Time", Updated |-> "time.Time"]
      [] entity = "contact" ->
           [ID |-> "null.Int64", Org |-> "int64", Name |-> "string",
            Role |-> "null.String", Email |-> "null.String",
            Linkedin |-> "null.String",
            Created |-> "time.Time", Updated |-> "time.Time"]
      [] entity = "event" ->
           [ID |-> "null.Int64", Contact |-> "int64", Occurred |-> "time.Time",
            Mode |-> "null.String", Priority |-> "null.Int64",
            Context |-> "null.String", Description |-> "null.String",
            Action |-> "null.String", Comment |-> "null.String",
            Created |-> "time.Time", Updated |-> "time.Time"]
      [] entity = "task" ->
           [ID |-> "null.Int64", Interaction |-> "null.Int64",
            Assigned |-> "null.Int64", Title |-> "string",
            Duedate |-> "null.Time", Status |-> "null.String",
            Notes |-> "null.String",
            Created |-> "time.Time", Updated |-> "time.Time"]

\* an instant: year, month, day, hour, minute, second
ZeroTime == <<1, 1, 1, 0, 0, 0>>

\* the instant time.Now() returns while the field list is built
Now == <<2025, 6, 7, 8, 9, 10>>

\* an instant stored on a loaded record
Stored == <<2023, 11, 30, 23, 59, 58>>

\* the zero value of a Go type
ZeroOf(type) ==
    CASE type \in {"string", "int64"} -> Value(type, <<>>, 0, TRUE)
      [] type \in {"null.String", "null.Int64"} -> Value(type, <<>>, 0, FALSE)
      [] type = "time.Time" -> Value(type, ZeroTime, 0, TRUE)
      [] type = "null.Time" -> Value(type, ZeroTime, 0, FALSE)

\* &models.Org{}, &models.Contact{}, &models.Event{}, &models.Task{}
NewRecord(entity) ==
    [a \in DOMAIN Types(entity) |-> ZeroOf(Types(entity)[a])]

\* a record models.FindOrg / FindContact / FindEvent / FindTask loads: its
\* mandatory attributes are set, its optional ones are all set or all NULL
FindRecord(entity, full) ==
    [a \in DOMAIN Types(entity) |->
        LET type == Types(entity)[a] IN
        CASE type = "string" -> Value(type, <<"a">>, 0, TRUE)
          [] type = "int64" -> Value(type, <<>>, 12, TRUE)
          [] type = "time.Time" -> Value(type, Stored, 0, TRUE)
          [] type = "null.Int64" ->
               IF a = "ID" \/ full THEN Value(type, <<>>, 5, TRUE) ELSE ZeroOf(type)
          [] type = "null.String" ->
               IF full THEN Value(type, <<"b">>, 0, TRUE) ELSE ZeroOf(type)
          [] type = "null.Time" ->
               IF full THEN Value(type, Stored, 0, TRUE) ELSE ZeroOf(type)]

\* n in decimal, padded with zeros to w digits
Pad(n, w) == [k \in 1..(w - Len(FormatInt(n))) |-> "0"] \o FormatInt(n)

\* t.Format("2006-01-02")
FormatDate(t) == Pad(t[1], 4) \o <<"-">> \o Pad(t[2], 2) \o <<"-">> \o Pad(t[3], 2)

\* t.Format("2006-01-02 15:04")
FormatClock(t) ==
    FormatDate(t) \o <<" ">> \o Pad(t[4], 2) \o <<":">> \o Pad(t[5], 2)

IsLeap(y) == (y % 4 = 0 /\ y % 100 # 0) \/ y % 400 = 0

\* the number of days of month m in year y
DaysIn(y, m) ==
    IF m = 2 THEN (IF IsLeap(y) THEN 29 ELSE 28)
    ELSE IF m \in {4, 6, 9, 11} THEN 30 ELSE 31

ParseTimeErr == [ok |-> FALSE, t |-> ZeroTime]

\* time.Parse("2006-01-02", s): four digits, "-", two digits, "-", two
\* digits and nothing more; the month and the day must exist; the instant is
\* midnight of that day
ParseDate(s) ==
    IF /\ Len(s) = 10
       /\ IsDecimal(SubSeq(s, 1, 4)) /\ s[5] = "-"
       /\ IsDecimal(SubSeq(s, 6, 7)) /\ s[8] = "-"
       /\ IsDecimal(SubSeq(s, 9, 10))
    THEN LET y == DecimalValue(SubSeq(s, 1, 4))
             m == DecimalValue(SubSeq(s, 6, 7))
             d == DecimalValue(SubSeq(s, 9, 10))
         IN IF m >= 1 /\ m <= 12 /\ d >= 1 /\ d <= DaysIn(y, m)
            THEN [ok |-> TRUE, t |-> <<y, m, d, 0, 0, 0>>]
            ELSE ParseTimeErr
    ELSE ParseTimeErr

\* time.Parse("2006-01-02 15:04", s): the date, a space, the hour in one or
\* two digits, ":", the minute in two digits and nothing more; the second
\* of the instant is 0
ParseClock(s) ==
    IF Len(s) >= 15 /\ ParseDate(SubSeq(s, 1, 10)).ok /\ s[11] = " "
    THEN LET day == ParseDate(SubSeq(s, 1, 10)).t
             hlen == IF s[13] \in Digits THEN 2 ELSE 1
             rest == SubSeq(s, 12 + hlen, Len(s))
         IN IF /\ IsDecimal(SubSeq(s, 12, 11 + hlen))
               /\ Len(rest) = 3 /\ rest[1] = ":" /\ IsDecimal(SubSeq(rest, 2, 3))
               /\ DecimalValue(SubSeq(s, 12, 11 + hlen)) < 24
               /\ DecimalValue(SubSeq(rest, 2, 3)) < 60
            THEN [ok |-> TRUE,
                  t |-> <<day[1], day[2], day[3],
                          DecimalValue(SubSeq(s, 12, 11 + hlen)),
                          DecimalValue(SubSeq(rest, 2, 3)), 0>>]
            ELSE ParseTimeErr
    ELSE ParseTimeErr

\* the Contact ID field: blank input reads as int64(0), anything else goes
\* through strconv.ParseInt and stays a plain int64
ParseInt64OrZero(s) ==
    IF TrimSpace(s) = <<>> THEN ParseOk(Value("int64", <<>>, 0, TRUE))
    ELSE IF ParseInt(s).ok THEN ParseOk(Value("int64", <<>>, ParseInt(s).val, TRUE))
    ELSE ParseErr

\* an optional integer field: blank input reads as null.Int64{}, anything
\* else as an integer field
ParseOptionalInt64(s) ==
    IF TrimSpace(s) = <<>> THEN ParseOk(Value("null.Int64", <<>>, 0, FALSE))
    ELSE ParseNullInt64(s)

\* the Occurred At field: time.Parse, the instant itself is the value
ParseOccurred(s) ==
    IF ParseClock(s).ok THEN ParseOk(Value("time.Time", ParseClock(s).t, 0, TRUE))
    ELSE ParseErr

\* the Due Date field: time.Parse, wrapped by null.TimeFrom
ParseDue(s) ==
    IF ParseDate(s).ok THEN ParseOk(Value("null.Time", ParseDate(s).t, 0, TRUE))
    ELSE ParseErr

\* Field.Parse of a shipped descriptor
ShipParse(f, raw) ==
    CASE f.parse = "Required" -> ParseRequired(raw)
      [] f.parse = "NullString" -> ParseNullString(raw)
      [] f.parse = "NullInt64" -> ParseNullInt64(raw)
      [] f.parse = "Int64OrZero" -> ParseInt64OrZero(raw)
      [] f.parse = "OptionalInt64" -> ParseOptionalInt64(raw)
      [] f.parse = "Occurred" -> ParseOccurred(raw)
      [] f.parse = "Due" -> ParseDue(raw)

\* a Field literal: its Label, its Initial, the shape of its Parse, the
\* attribute its Assign looks up with FieldByName and the setter it calls
Descriptor(label, initial, parse, attr, setter) ==
    [Label |-> label, Initial |-> initial, parse |-> parse,
     attr |-> attr, setter |-> setter]

\* the field list of runOrgAdd
OrgAddFields ==
    << Descriptor("Org Name", <<>>, "Required", "Name", "SetString"),
       Descriptor("Location (optional)", <<>>, "NullString", "Location", "Set") >>

\* the field list of runOrgEdit over the loaded org
OrgEditFields(org) ==
    << Descriptor("Org Name", org.Name.str, "Required", "Name", "SetString"),
       Descriptor("Location (optional)", org.Location.str, "NullString",
                  "Location", "Set") >>

\* the field list of runContactAdd
ContactAddFields ==
    << Descriptor("Organization ID", <<>>, "NullInt64", "Org", "Set"),
       Descriptor("Name", <<>>, "Required", "Name", "SetString"),
       Descriptor("Role (optional)", <<>>, "NullString", "Role", "Set"),
       Descriptor("Email (optional)", <<>>, "NullString", "Email", "Set"),
       Descriptor("LinkedIn (optional)", <<>>, "NullString", "Linkedin", "Set") >>

\* the field list of runContactEdit over the loaded contact
ContactEditFields(c) ==
    << Descriptor("Organization ID", FormatInt(c.Org.num), "NullInt64",
                  "Organization", "Set"),
       Descriptor("Name", c.Name.str, "Required", "Name", "SetString"),
       Descriptor("Role (optional)", c.Role.str, "NullString", "Role", "Set"),
       Descriptor("Email (optional)", c.Email.str, "NullString", "Email", "Set"),
       Descriptor("LinkedIn (optional)", c.Linkedin.str, "NullString",
                  "Linkedin", "Set") >>

\* variant: the priority of a new event starts blank
EventAddFieldsBlank ==
    << Descriptor("Contact ID", <<>>, "Int64OrZero", "Contact", "SetInt"),
       Descriptor("Occurred At (YYYY-MM-DD HH:MM)", FormatClock(Now), "Occurred",
                  "Occurred", "Set"),
       Descriptor("Mode", <<>>, "NullString", "Mode", "Set"),
       Descriptor("Priority (integer)", <<>>, "OptionalInt64", "Priority", "Set"),
       Descriptor("Context (optional)", <<>>, "NullString", "Context", "Set"),
       Descriptor("Description (optional)", <<>>, "NullString", "Description", "Set"),
       Descriptor("Action (optional)", <<>>, "NullString", "Action", "Set"),
       Descriptor("Comment (optional)", <<>>, "NullString", "Comment", "Set") >>

\* the field list of runEventAdd
EventAddFields ==
    << Descriptor("Contact ID", <<>>, "Int64OrZero", "Contact", "SetInt"),
       Descriptor("Occurred At (YYYY-MM-DD HH:MM)", FormatClock(Now), "Occurred",
                  "Occurred", "Set"),
       Descriptor("Mode", <<>>, "NullString", "Mode", "Set"),
       Descriptor("Priority (integer)", <<"0">>, "OptionalInt64", "Priority", "Set"),
       Descriptor("Context (optional)", <<>>, "NullString", "Context", "Set"),
       Descriptor("Description (optional)", <<>>, "NullString", "Description", "Set"),
       Descriptor("Action (optional)", <<>>, "NullString", "Action", "Set"),
       Descriptor("Comment (optional)", <<>>, "NullString", "Comment", "Set") >>

\* the field list of runEventEdit over the loaded event
EventEditFields(e) ==
    << Descriptor("Contact ID", FormatInt(e.Contact.num), "Int64OrZero",
                  "Contact", "SetInt"),
       Descriptor("Occurred At (YYYY-MM-DD HH:MM)", FormatClock(e.Occurred.str),
                  "Occurred", "Occurred", "Set"),
       Descriptor("Mode", e.Mode.str, "NullString", "Mode", "Set"),
       Descriptor("Priority (integer)", FormatInt(e.Priority.num), "OptionalInt64",
                  "Priority", "Set"),
       Descriptor("Context (optional)", e.Context.str, "NullString", "Context", "Set"),
       Descriptor("Description (optional)", e.Description.str, "NullString",
                  "Description", "Set"),
       Descriptor("Action (optional)", e.Action.str, "NullString", "Action", "Set"),
       Descriptor("Comment (optional)", e.Comment.str, "NullString", "Comment", "Set") >>

\* the field list of runTaskAdd
TaskAddFields ==
    << Descriptor("Interaction ID (optional)", <<>>, "OptionalInt64",
                  "Interaction", "Set"),
       Descriptor("Assigned (optional)", <<>>, "OptionalInt64", "Assigned", "Set"),
       Descriptor("Title", <<>>, "Required", "Title", "SetString"),
       Descriptor("Due Date (YYYY-MM-DD)", FormatDate(Now), "Due", "Duedate", "Set"),
       Descriptor("Status", <<"p", "e", "n", "d", "i", "n", "g">>, "NullString", "Status", "Set"),
       Descriptor("Notes (optional)", <<>>, "NullString", "Notes", "Set") >>

\* the field list of runTaskEdit over the loaded task
TaskEditFields(tk) ==
    << Descriptor("Interaction ID (optional)", FormatInt(tk.Interaction.num),
                  "OptionalInt64", "Interaction", "Set"),
       Descriptor("Assigned (optional)", FormatInt(tk.Assigned.num),
                  "OptionalInt64", "Assigned", "Set"),
       Descriptor("Title", tk.Title.str, "Required", "Title", "SetString"),
       Descriptor("Due Date (YYYY-MM-DD)", FormatDate(tk.Duedate.str), "Due",
                  "Duedate", "Set"),
       Descriptor("Status", tk.Status.str, "NullString", "Status", "Set"),
       Descriptor("Notes (optional)", tk.Notes.str, "NullString", "Notes", "Set") >>

\* the field list wizard w builds over record r
ShipFields(w, r) ==
    CASE w = "orgAdd" -> OrgAddFields
      [] w = "orgEdit" -> OrgEditFields(r)
      [] w = "contactAdd" -> ContactAddFields
      [] w = "contactEdit" -> ContactEditFields(r)
      [] w = "eventAdd" -> EventAddFields
      [] w = "eventEdit" -> EventEditFields(r)
      [] w = "taskAdd" -> TaskAddFields
      [] w = "taskEdit" -> TaskEditFields(r)
      [] OTHER -> <<>>

\* the texts a user leaves in the input of field f before confirming, besides
\* the pre-filled one: nothing and a number for every field, a blank where
\* blank input is read, a word for a number field, a text of its own
\* format for a time field
Typed(f) ==
    {<<>>, <<"7">>} \cup
    (CASE f.parse = "Occurred" -> {<<"2", "0", "2", "4", "-", "0", "2", "-", "2", "9", " ", "3", ":", "0", "4">>}
       [] f.parse = "Due" -> {<<"2", "0", "2", "4", "-", "0", "2", "-", "2", "9">>}
       [] f.parse \in {"NullInt64", "Int64OrZero", "OptionalInt64"} -> {<<" ">>, <<"x">>}
       [] f.parse = "Required" -> {<<" ">>}
       [] OTHER -> {})

\* variant: the setter stamps the record's update time as well
ShipAssignStamp(r, f, v) ==
    IF f.attr \in DOMAIN r /\
       CASE f.setter = "Set" -> v.tag = r[f.attr].tag
         [] f.setter = "SetString" -> v.tag = "string" /\ r[f.attr].tag = "string"
         [] f.setter = "SetInt" -> v.tag = "int64" /\ r[f.attr].tag = "int64"
    THEN [fault |-> FALSE,
          rec |-> [r EXCEPT ![f.attr] = v,
                            !.Updated = Value("time.Time", Now, 0, TRUE)]]
    ELSE [fault |-> TRUE, rec |-> r]

\* Field.Assign of a shipped descriptor: FieldByName(attr), then Set,
\* SetString or SetInt. It faults, before anything is written, when the
\* record has no such attribute (Set on the zero reflect.Value, log.Fatalf for
\* Contact) or when the value's type is not the attribute's type
ShipAssign(r, f, v) ==
    IF f.attr \in DOMAIN r /\
       CASE f.setter = "Set" -> v.tag = r[f.attr].tag
         [] f.setter = "SetString" -> v.tag = "string" /\ r[f.attr].tag = "string"
         [] f.setter = "SetInt" -> v.tag = "int64" /\ r[f.attr].tag = "int64"
    THEN [fault |-> FALSE, rec |-> [r EXCEPT ![f.attr] = v]]
    ELSE [fault |-> TRUE, rec |-> r]

\* the command builds the record and the field list and starts the wizard
InitShipped ==
    /\ WizardIdle
    /\ CrudIdle
    /\ CsvIdle
    /\ wiz \in Wizards
    /\ pre \in (IF IsAdd(wiz) THEN {NewRecord(Entity(wiz))}
                ELSE {FindRecord(Entity(wiz), full) : full \in BOOLEAN})
    /\ rec = pre
    /\ cur = 0
    /\ buf = ShipFields(wiz, pre)[1].Initial
    /\ shipPc = "running"
    /\ shipLast = NoConfirm

\* FormModel.Update on "enter" with raw in the input of the active field:
\* a rejected text leaves everything as it is, an accepted one is assigned
\* and the wizard advances to the next field's Initial or finishes
ShipConfirm(raw) ==
    /\ shipPc = "running"
    /\ LET f == ShipFields(wiz, pre)[cur + 1]
           p == ShipParse(f, raw)
           a == ShipAssign(rec, f, p.val)
           outcome == IF ~p.ok THEN "rejected"
                      ELSE IF a.fault THEN "fault" ELSE "assigned"
       IN /\ shipLast' = [field |-> cur + 1, label |-> f.Label, raw |-> raw,
                          outcome |-> outcome]
          /\ rec' = IF outcome = "assigned" THEN a.rec ELSE rec
          /\ cur' = IF outcome = "assigned" THEN cur + 1 ELSE cur
          /\ shipPc' = CASE outcome = "fault" -> "panicked"
                         [] outcome = "assigned" /\ cur + 1 >= Len(ShipFields(wiz, pre))
                              -> "done"
                         [] OTHER -> "running"
          /\ buf' = CASE outcome = "assigned" /\ cur + 1 < Len(ShipFields(wiz, pre))
                              -> ShipFields(wiz, pre)[cur + 2].Initial
                      [] outcome = "assigned" -> <<>>
                      [] OTHER -> buf
    /\ UNCHANGED <<wiz, pre, wizardVars, crudVars, csvVars>>

\* ctrl+c: the wizard ends where it stands
ShipCancel ==
    /\ shipPc = "running"
    /\ shipPc' = "cancelled"
    /\ UNCHANGED <<wiz, rec, pre, cur, buf, shipLast, wizardVars, crudVars, csvVars>>

\* the texts the user may confirm in the active field
Confirmable ==
    IF shipPc = "running"
    THEN Typed(ShipFields(wiz, pre)[cur + 1]) \cup {buf}
    ELSE {}

NextShipped ==
    \/ \E raw \in Confirmable : ShipConfirm(raw)
    \/ ShipCancel

SpecShipped == InitShipped /\ [][NextShipped]_vars

\* C21 - Assign never faults on accepted input: in every shipped wizard a
\* text the field's Parse accepts is written by the field's Assign without
\* fault; no confirm ends in a fault.
AssignNeverFaults == shipLast.outcome # "fault" /\ shipPc # "panicked"

\* the labels of the fields whose column is NOT NULL
MandatoryLabels ==
    {"Org Name", "Organization ID", "Name", "Contact ID",
     "Occurred At (YYYY-MM-DD HH:MM)", "Title"}

\* C22 - Mandatory fields reject blank input: a confirm of an empty or
\* whitespace-only text on a mandatory field of a shipped wizard is rejected,
\* so the wizard does not advance past it.
MandatoryRejectsBlank ==
    (shipLast.outcome # "none" /\ shipLast.label \in MandatoryLabels
       /\ TrimSpace(shipLast.raw) = <<>>)
      => shipLast.outcome = "rejected"

\* the attributes the confirmed fields of the run name
Covered == {ShipFields(wiz, pre)[i].attr : i \in 1..cur}

\* C25 - Assign frame: a step changes no attribute of the record but the one
\* the active field designates, and only by an accepted confirm that writes
\* the parsed value; at every moment of a run, and after it, the attributes
\* no confirmed field names, identity and timestamps among them, have the
\* values they had before the run.
AssignFrame ==
    /\ [][\A a \in DOMAIN rec :
            rec'[a] # rec[a] =>
              /\ shipLast'.outcome = "assigned"
              /\ cur' = cur + 1
              /\ a = ShipFields(wiz, pre)[cur + 1].attr
              /\ rec'[a] = ShipParse(ShipFields(wiz, pre)[cur + 1], shipLast'.raw).val]_vars
    /\ [](\A a \in DOMAIN rec : a \notin Covered => rec[a] = pre[a])

AssignFrameWitness ==
    /\ wiz = "taskEdit"
    /\ shipPc = "done"
    /\ rec.Title # pre.Title
    /\ rec.Duedate # pre.Duedate
    /\ rec.Notes = pre.Notes
    /\ rec.ID = pre.ID /\ rec.Created = pre.Created /\ rec.Updated = pre.Updated
    /\ pre.ID.valid

\* C29 as stated - Create flows start empty: the input of every field of an
\* add wizard starts with the empty text.
CreateStartsEmpty == (IsAdd(wiz) /\ shipPc = "running") => buf = <<>>

\* the text an edit wizard shows for a stored value
TextOf(v) ==
    CASE v.tag \in {"string", "null.String"} -> v.str
      [] v.tag \in {"int64", "null.Int64"} -> FormatInt(v.num)
      [] v.tag = "time.Time" -> FormatClock(v.str)
      [] v.tag = "null.Time" -> FormatDate(v.str)

\* C29 - Initial texts: the input of a field of an add wizard starts empty,
\* but for four defaults that depend on no record - the current minute for
\* the event's Occurred At, "0" for its Priority, the current day for the
\* task's Due Date and "pending" for its Status; the input of a field of an
\* edit wizard starts with the text of the loaded record's attribute.
InitialTexts ==
    shipPc = "running" =>
      LET f == ShipFields(wiz, pre)[cur + 1] IN
      IF IsAdd(wiz)
      THEN buf = (CASE f.Label = "Occurred At (YYYY-MM-DD HH:MM)" -> FormatClock(Now)
                    [] f.Label = "Priority (integer)" -> <<"0">>
                    [] f.Label = "Due Date (YYYY-MM-DD)" -> FormatDate(Now)
                    [] f.Label = "Status" -> <<"p", "e", "n", "d", "i", "n", "g">>
                    [] OTHER -> <<>>)
      ELSE buf = TextOf(pre[IF f.Label = "Organization ID" THEN "Org" ELSE f.attr])

InitialTextsWitness ==
    /\ wiz = "eventAdd"
    /\ shipPc = "running"
    /\ cur = 3
    /\ buf = <<"0">>
    /\ rec.Occurred.str = <<2025, 6, 7, 8, 9, 0>>
    /\ pre.Occurred.str = ZeroTime

\* C32 - Edit round trip: in an edit wizard a confirm of the text the field
\* was pre-filled with is accepted and assigned without fault and leaves the
\* holder as it was loaded into that attribute - so a run that confirms every
\* field unchanged ends with every attribute at its loaded value, a null
\* attribute still null.
EditRoundTrip ==
    [][(~IsAdd(wiz) /\ shipPc = "running" /\ shipLast' # shipLast
          /\ shipLast'.raw = buf) =>
          /\ shipLast'.outcome = "assigned"
          /\ rec' = rec
          /\ \A a \in DOMAIN rec : rec[a] = pre[a] => rec'[a] = pre[a]]_vars

\* every invocation so far was an add that succeeded, all with the headers
\* of the first
SameHeaderAdds ==
    /\ csvLog # <<>>
    /\ \A k \in 1..Len(csvLog) :
          /\ csvLog[k].name = "add"
          /\ csvLog[k].exit = "ok"
          /\ csvLog[k].hdrs = csvLog[1].hdrs

BadIndex(tok, file) ==
    LET p == ParseInt(tok)
    IN  ~p.ok \/ p.val < 1 \/ p.val >= Len(ReadAll(file.rows).rows)

\* C36 - CSV edit index check: an edit whose record argument is not an
\* integer in 1..(rows-1) ends with an error before anything is written: the
\* file is as it was and no replacement file is made.
EditIndexCheck ==
    [][(csvExit = "none" /\ csvCmd'.name = "edit"
        /\ BadIndex(csvCmd'.args[1], csvFile)) =>
          /\ csvExit' = "fatal"
          /\ csvFile' = csvFile
          /\ tmpFile' = tmpFile]_vars

EditIndexCheckWitness ==
    /\ csvCmd.name = "edit"
    /\ csvCmd.noTUI
    /\ csvCmd.path = "data.csv"
    /\ csvCmd.hdrs = <<"h1">>
    /\ csvCmd.args = << <<"0">>, "y" >>
    /\ csvExit = "fatal"
    /\ csvFile = File(<< <<"h1">>, <<"x">> >>)
    /\ tmpFile = Absent
====
